---- MODULE Spec2Model ----
(***************************************************************************)
(* State-machine model of the UCIC smart contracts:                        *)
(*   UCTokenContract  (the Ledger),                                        *)
(*   UCICDaoContract  (the GovernanceRegistry),                            *)
(*   OracleContract   (the VerificationOracle).                            *)
(* Every public mutating method is one action; the value it returns is     *)
(* kept in the variable result.  std::time(nullptr) is the variable now.   *)
(***************************************************************************)
EXTENDS Integers, Sequences, FiniteSets, TLC

VARIABLES
    accounts,              \* UCTokenContract::accounts   address -> Account
    allowances,            \* UCTokenContract::allowances <<owner, spender>> -> amount
    transactionHistories,  \* UCTokenContract::transactionHistories
    totalSupply,           \* UCTokenContract::totalSupply
    treasuryBalance,       \* UCTokenContract::treasuryBalance
    transactionCount,      \* UCTokenContract::transactionCount
    contributors,          \* UCICDaoContract::contributors address -> Contributor
    proposals,             \* UCICDaoContract::proposals    id -> Proposal
    votes,                 \* UCICDaoContract::votes        <<id, voter>> -> Vote
    governanceLog,         \* UCICDaoContract::governanceLog
    nextProposalId,        \* UCICDaoContract::nextProposalId
    totalRewardsDistributed, \* UCICDaoContract::totalRewardsDistributed
    lastRewardDistribution,  \* UCICDaoContract::lastRewardDistribution
    submissions,           \* OracleContract::submissions  id -> OracleSubmission
    verificationChains,    \* OracleContract::verificationChains
    gitRepositories,       \* OracleContract::gitRepositories
    merkleRoots,           \* OracleContract::merkleRoots
    verifiers,             \* OracleContract::verifiers
    auditLog,              \* OracleContract::auditLog
    challenges,            \* OracleContract::challenges   id -> resolved
    totalVerifications,    \* OracleContract::totalVerifications
    acceptedVerifications, \* OracleContract::acceptedVerifications
    now,                   \* the wall clock read by std::time(nullptr)
    result,                \* <<method, value>>: the last call and what it returned
    calls,                 \* the number of calls made, counted up to MaxCalls
    inFlight,              \* castVote calls under way: caller -> its locals
    user_totp_info         \* TwoFactorAuth::user_totp_info_  user -> TOTPInfo

tokenVars == <<accounts, allowances, transactionHistories, totalSupply,
               treasuryBalance, transactionCount>>
daoVars == <<contributors, proposals, votes, governanceLog, nextProposalId,
             totalRewardsDistributed, lastRewardDistribution>>
oracleVars == <<submissions, verificationChains, gitRepositories, merkleRoots,
                verifiers, auditLog, challenges, totalVerifications,
                acceptedVerifications>>
vars == <<tokenVars, daoVars, oracleVars, now, result, calls, inFlight,
          user_totp_info>>

(***************************************************************************)
(* Sizes of the model.  Amounts are counted in a scaled smallest unit      *)
(* (UC_UNIT units per UC instead of 10^8) and an unsigned 64-bit word is   *)
(* WordBits wide, so that TLC's integers can hold every value and the      *)
(* wrap-around of unsigned arithmetic is within reach.                     *)
(***************************************************************************)
UC_UNIT == 1
WordBits == 12
MaxTx == 2
MaxTime == 2
MaxProposals == 1
MaxCycles == 1
MaxScores == 2
MaxPoints == 500
MaxAudit == 5
MaxVerifications == 3
MaxCalls == 3
MaxMints == 4
MaxIds == 3
MaxVerdicts == 256

UC_TOKEN_SUPPLY == 1000
Word == 2 ^ WordBits

UC_TO_UNITS(uc) == uc * UC_UNIT

\* unsigned 64-bit addition and subtraction
UAdd(a, b) == (a + b) % Word
USub(a, b) == (a - b + Word) % Word

treasuryAddress == "__TREASURY__"
MintAddress == "__MINT__"
BurnAddress == "__BURN__"

\* the addresses and amounts the calls are made with
Addresses == {treasuryAddress, "alice"}
Amounts == {0, UC_TO_UNITS(UC_TOKEN_SUPPLY) \div 2, UC_TO_UNITS(UC_TOKEN_SUPPLY)}

\* an address of 257 characters, one more than validateAddress accepts
LongAddress ==
    "aaaaaaaaaaaaaaaaaaaaaaaaaaaaaaaaaaaaaaaaaaaaaaaaaaaaaaaaaaaaaaaaaaaaaaaaaaaaaaaaaaaaaaaaaaaaaaaaaaaaaaaaaaaaaaaaaaaaaaaaaaaaaaaaaaaaaaaaaaaaaaaaaaaaaaaaaaaaaaaaaaaaaaaaaaaaaaaaaaaaaaaaaaaaaaaaaaaaaaaaaaaaaaaaaaaaaaaaaaaaaaaaaaaaaaaaaaaaaaaaaaaaaaaaaaaaaaaaa"

\* the addresses that validateAddress turns down
BadAddresses == {"", LongAddress}

Put(f, k, v) == [x \in DOMAIN f \cup {k} |-> IF x = k THEN v ELSE f[x]]

(***************************************************************************)
(* UCTokenContract.  The contract's fields are gathered in a record t so   *)
(* that a method is a function from (t, arguments) to [t, ret].            *)
(***************************************************************************)
Token == [accounts |-> accounts, allowances |-> allowances,
          transactionHistories |-> transactionHistories,
          totalSupply |-> totalSupply, treasuryBalance |-> treasuryBalance,
          transactionCount |-> transactionCount]

NewAccount(time) == [balance |-> 0, nonce |-> 0, createdAt |-> time]

TokenInit ==
    [accounts |-> [a \in {treasuryAddress} |->
                     [balance |-> UC_TOKEN_SUPPLY * UC_UNIT, nonce |-> 0, createdAt |-> 0]],
     allowances |-> <<>>,
     transactionHistories |-> <<>>,
     totalSupply |-> UC_TOKEN_SUPPLY * UC_UNIT,
     treasuryBalance |-> UC_TOKEN_SUPPLY * UC_UNIT,
     transactionCount |-> 0]

balanceOf(t, account) ==
    IF account \in DOMAIN t.accounts THEN t.accounts[account].balance ELSE 0

allowance(t, owner, spender) ==
    IF <<owner, spender>> \in DOMAIN t.allowances
    THEN t.allowances[<<owner, spender>>] ELSE 0

validateAmount(t, amount) == amount > 0 /\ amount <= t.totalSupply

validateAddress(addr) == addr # "" /\ Len(addr) <= 256

\* accounts[a] = newAccount when a is absent
WithAccount(accs, a, time) ==
    IF a \in DOMAIN accs THEN accs ELSE Put(accs, a, NewAccount(time))

Credit(accs, a, amount) ==
    [accs EXCEPT ![a].balance = UAdd(@, amount)]

Debit(accs, a, amount) ==
    [accs EXCEPT ![a].balance = USub(@, amount)]

HistoryOf(h, a) == IF a \in DOMAIN h THEN h[a] ELSE <<>>

recordTransaction(h, from, to, txHash) ==
    LET h1 == Put(h, from, Append(HistoryOf(h, from), txHash))
    IN  Put(h1, to, Append(HistoryOf(h1, to), txHash))

Fail(t) == [t |-> t, ret |-> FALSE]

\* a transfer that does not look at the treasury's balance
transferNoFundsCheck(t, recipient, amount, time) ==
    IF ~validateAddress(recipient) \/ ~validateAmount(t, amount) THEN Fail(t)
    ELSE LET a1 == WithAccount(t.accounts, recipient, time)
             a2 == Debit(a1, treasuryAddress, amount)
             a3 == Credit(a2, recipient, amount)
             a4 == [a3 EXCEPT ![treasuryAddress].nonce = @ + 1]
         IN [t |-> [t EXCEPT !.accounts = a4,
                             !.transactionCount = @ + 1,
                             !.transactionHistories =
                                 recordTransaction(@, treasuryAddress, recipient,
                                                   <<"tx", t.transactionCount>>)],
             ret |-> TRUE]

transfer(t, recipient, amount, time) ==
    IF ~validateAddress(recipient) \/ ~validateAmount(t, amount) THEN Fail(t)
    ELSE IF treasuryAddress \notin DOMAIN t.accounts
            \/ t.accounts[treasuryAddress].balance < amount THEN Fail(t)
    ELSE LET a1 == WithAccount(t.accounts, recipient, time)
             a2 == Debit(a1, treasuryAddress, amount)
             a3 == Credit(a2, recipient, amount)
             a4 == [a3 EXCEPT ![treasuryAddress].nonce = @ + 1]
         IN [t |-> [t EXCEPT !.accounts = a4,
                             !.transactionCount = @ + 1,
                             !.transactionHistories =
                                 recordTransaction(@, treasuryAddress, recipient,
                                                   <<"tx", t.transactionCount>>)],
             ret |-> TRUE]

\* a transferFrom that takes the amount off the allowance before it looks at
\* the owner's balance
transferFromEager(t, owner, recipient, amount, time) ==
    IF ~validateAddress(owner) \/ ~validateAddress(recipient)
       \/ ~validateAmount(t, amount) THEN Fail(t)
    ELSE IF allowance(t, owner, recipient) < amount THEN Fail(t)
    ELSE IF owner \notin DOMAIN t.accounts \/ t.accounts[owner].balance < amount
         THEN Fail([t EXCEPT !.allowances = Put(@, <<owner, recipient>>,
                                 USub(allowance(t, owner, recipient), amount))])
    ELSE LET a1 == WithAccount(t.accounts, recipient, time)
             a2 == Debit(a1, owner, amount)
             a3 == Credit(a2, recipient, amount)
             a4 == [a3 EXCEPT ![owner].nonce = @ + 1]
         IN [t |-> [t EXCEPT !.accounts = a4,
                             !.allowances = Put(@, <<owner, recipient>>,
                                 USub(allowance(t, owner, recipient), amount)),
                             !.transactionCount = @ + 1,
                             !.transactionHistories =
                                 recordTransaction(@, owner, recipient,
                                                   <<"tx", t.transactionCount>>)],
             ret |-> TRUE]

\* a transferFrom that moves the amount and leaves the allowance as it was
transferFromKeepsAllowance(t, owner, recipient, amount, time) ==
    IF ~validateAddress(owner) \/ ~validateAddress(recipient)
       \/ ~validateAmount(t, amount) THEN Fail(t)
    ELSE IF allowance(t, owner, recipient) < amount THEN Fail(t)
    ELSE IF owner \notin DOMAIN t.accounts \/ t.accounts[owner].balance < amount
         THEN Fail(t)
    ELSE LET a1 == WithAccount(t.accounts, recipient, time)
             a2 == Debit(a1, owner, amount)
             a3 == Credit(a2, recipient, amount)
             a4 == [a3 EXCEPT ![owner].nonce = @ + 1]
         IN [t |-> [t EXCEPT !.accounts = a4,
                             !.transactionCount = @ + 1,
                             !.transactionHistories =
                                 recordTransaction(@, owner, recipient,
                                                   <<"tx", t.transactionCount>>)],
             ret |-> TRUE]

transferFrom(t, owner, recipient, amount, time) ==
    IF ~validateAddress(owner) \/ ~validateAddress(recipient)
       \/ ~validateAmount(t, amount) THEN Fail(t)
    ELSE IF allowance(t, owner, recipient) < amount THEN Fail(t)
    ELSE IF owner \notin DOMAIN t.accounts \/ t.accounts[owner].balance < amount
         THEN Fail(t)
    ELSE LET a1 == WithAccount(t.accounts, recipient, time)
             a2 == Debit(a1, owner, amount)
             a3 == Credit(a2, recipient, amount)
             a4 == [a3 EXCEPT ![owner].nonce = @ + 1]
         IN [t |-> [t EXCEPT !.accounts = a4,
                             !.allowances = Put(@, <<owner, recipient>>,
                                 USub(allowance(t, owner, recipient), amount)),
                             !.transactionCount = @ + 1,
                             !.transactionHistories =
                                 recordTransaction(@, owner, recipient,
                                                   <<"tx", t.transactionCount>>)],
             ret |-> TRUE]

approve(t, spender, amount) ==
    IF ~validateAddress(spender) \/ ~validateAmount(t, amount) THEN Fail(t)
    ELSE [t |-> [t EXCEPT !.allowances = Put(@, <<treasuryAddress, spender>>, amount)],
          ret |-> TRUE]

increaseAllowance(t, spender, addedValue) ==
    IF ~validateAddress(spender) \/ ~validateAmount(t, addedValue) THEN Fail(t)
    ELSE [t |-> [t EXCEPT !.allowances = Put(@, <<treasuryAddress, spender>>,
                     UAdd(allowance(t, treasuryAddress, spender), addedValue))],
          ret |-> TRUE]

decreaseAllowance(t, spender, subtractedValue) ==
    IF ~validateAddress(spender) \/ ~validateAmount(t, subtractedValue) THEN Fail(t)
    ELSE IF allowance(t, treasuryAddress, spender) < subtractedValue THEN Fail(t)
    ELSE [t |-> [t EXCEPT !.allowances = Put(@, <<treasuryAddress, spender>>,
                     USub(allowance(t, treasuryAddress, spender), subtractedValue))],
          ret |-> TRUE]

mint(t, account, amount, time) ==
    IF ~validateAddress(account) \/ ~validateAmount(t, amount) THEN Fail(t)
    ELSE LET a1 == WithAccount(t.accounts, account, time)
         IN [t |-> [t EXCEPT !.accounts = Credit(a1, account, amount),
                             !.totalSupply = UAdd(@, amount),
                             !.transactionCount = @ + 1,
                             !.transactionHistories =
                                 recordTransaction(@, MintAddress, account,
                                                   <<"mint", t.transactionCount>>)],
             ret |-> TRUE]

\* a burn that debits the account and forgets the supply
burnKeepsSupply(t, account, amount) ==
    IF ~validateAddress(account) \/ ~validateAmount(t, amount) THEN Fail(t)
    ELSE IF account \notin DOMAIN t.accounts \/ t.accounts[account].balance < amount
         THEN Fail(t)
    ELSE [t |-> [t EXCEPT !.accounts = Debit(@, account, amount),
                          !.transactionCount = @ + 1],
          ret |-> TRUE]

burn(t, account, amount) ==
    IF ~validateAddress(account) \/ ~validateAmount(t, amount) THEN Fail(t)
    ELSE IF account \notin DOMAIN t.accounts \/ t.accounts[account].balance < amount
         THEN Fail(t)
    ELSE [t |-> [t EXCEPT !.accounts = Debit(@, account, amount),
                          !.totalSupply = USub(@, amount),
                          !.transactionCount = @ + 1,
                          !.transactionHistories =
                              recordTransaction(@, account, BurnAddress,
                                                <<"burn", t.transactionCount>>)],
          ret |-> TRUE]

distributeReward(t, recipient, amount, time) ==
    IF ~validateAddress(recipient) \/ ~validateAmount(t, amount)
       \/ amount > t.treasuryBalance THEN Fail(t)
    ELSE LET a1 == WithAccount(t.accounts, recipient, time)
             a2 == Debit(a1, treasuryAddress, amount)
             a3 == Credit(a2, recipient, amount)
         IN [t |-> [t EXCEPT !.accounts = a3,
                             !.treasuryBalance = USub(@, amount),
                             !.transactionCount = @ + 1,
                             !.transactionHistories =
                                 recordTransaction(@, treasuryAddress, recipient,
                                                   <<"reward", t.transactionCount>>)],
             ret |-> TRUE]

treasuryWithdraw(t, recipient, amount, time) ==
    IF ~validateAddress(recipient) \/ ~validateAmount(t, amount)
       \/ amount > t.treasuryBalance THEN Fail(t)
    ELSE LET a1 == Debit(t.accounts, treasuryAddress, amount)
             a2 == WithAccount(a1, recipient, time)
             a3 == Credit(a2, recipient, amount)
         IN [t |-> [t EXCEPT !.accounts = a3,
                             !.treasuryBalance = USub(@, amount),
                             !.transactionCount = @ + 1,
                             !.transactionHistories =
                                 recordTransaction(@, treasuryAddress, recipient,
                                                   <<"withdraw", t.transactionCount>>)],
             ret |-> TRUE]

treasuryDeposit(t, contributor, amount) ==
    IF ~validateAddress(contributor) \/ ~validateAmount(t, amount) THEN Fail(t)
    ELSE IF contributor \notin DOMAIN t.accounts
            \/ t.accounts[contributor].balance < amount THEN Fail(t)
    ELSE LET a1 == Debit(t.accounts, contributor, amount)
             a2 == Credit(a1, treasuryAddress, amount)
         IN [t |-> [t EXCEPT !.accounts = a2,
                             !.treasuryBalance = UAdd(@, amount),
                             !.transactionCount = @ + 1,
                             !.transactionHistories =
                                 recordTransaction(@, contributor, treasuryAddress,
                                                   <<"deposit", t.transactionCount>>)],
             ret |-> TRUE]

registerAccount(t, account, time) ==
    IF ~validateAddress(account) THEN Fail(t)
    ELSE IF account \in DOMAIN t.accounts THEN Fail(t)
    ELSE [t |-> [t EXCEPT !.accounts = Put(@, account, NewAccount(time))],
          ret |-> TRUE]

RECURSIVE SumBalances(_, _)
SumBalances(accs, S) ==
    IF S = {} THEN 0
    ELSE LET a == CHOOSE x \in S : TRUE
         IN UAdd(accs[a].balance, SumBalances(accs, S \ {a}))

verifyIntegrity(t) == SumBalances(t.accounts, DOMAIN t.accounts) = t.totalSupply

(***************************************************************************)
(* UCICDaoContract.  The fields are gathered in a record d; a method that  *)
(* pays rewards also takes and returns the token contract t it calls.      *)
(* governanceLog is only ever appended to and never read: the model keeps  *)
(* the number of its entries.                                              *)
(***************************************************************************)
RECOGNIZED == 0
SILVER == 1
GOLD == 2
PLATINUM == 3
FOUNDER == 4

VOTING_POWER == <<1, 2, 3, 4, 5>>
MONTHLY_REWARD_POOL == 30
REWARD_DISTRIBUTION == <<20, 20, 30, 40, 100>>

PENDING == 0
ACTIVE == 1
PASSED == 2
FAILED == 3
EXECUTED == 4
CANCELLED == 5

VoteFOR == 0
VoteAGAINST == 1
VoteABSTAIN == 2

PROPOSAL_VOTING_PERIOD_HOURS == 72

CODE_QUALITY_WEIGHT == 25
DOCUMENTATION_WEIGHT == 20
TESTING_WEIGHT == 20
INNOVATION_WEIGHT == 20
COMMUNITY_WEIGHT == 15

Dao == [contributors |-> contributors, proposals |-> proposals, votes |-> votes,
        governanceLog |-> governanceLog, nextProposalId |-> nextProposalId,
        totalRewardsDistributed |-> totalRewardsDistributed,
        lastRewardDistribution |-> lastRewardDistribution]

DaoInit == [contributors |-> <<>>, proposals |-> <<>>, votes |-> <<>>,
            governanceLog |-> 0, nextProposalId |-> 1,
            totalRewardsDistributed |-> 0, lastRewardDistribution |-> 0]

getTierVotingPower(tier) == VOTING_POWER[tier + 1]

recordGovernanceAction(d) == [d EXCEPT !.governanceLog = @ + 1]

\* a registerContributor that registers afresh whoever is there already
registerContributorAfresh(d, address, time) ==
    LET contrib == [address |-> address, tier |-> RECOGNIZED,
                    compositeScore |-> 0, pointsEarned |-> 0,
                    rewardsReceived |-> 0, joinedAt |-> time,
                    lastRewardClaimAt |-> 0, auditTrail |-> <<>>]
    IN [d |-> recordGovernanceAction(
                  [d EXCEPT !.contributors = Put(@, address, contrib)]),
        ret |-> TRUE]

registerContributor(d, address, time) ==
    IF address \in DOMAIN d.contributors THEN [d |-> d, ret |-> FALSE]
    ELSE LET contrib == [address |-> address, tier |-> RECOGNIZED,
                         compositeScore |-> 0, pointsEarned |-> 0,
                         rewardsReceived |-> 0, joinedAt |-> time,
                         lastRewardClaimAt |-> 0, auditTrail |-> <<>>]
         IN [d |-> recordGovernanceAction(
                       [d EXCEPT !.contributors = Put(@, address, contrib)]),
             ret |-> TRUE]

isContributor(d, address) == address \in DOMAIN d.contributors

getTier(d, address) ==
    IF address \in DOMAIN d.contributors THEN d.contributors[address].tier
    ELSE RECOGNIZED

getCompositeScore(d, address) ==
    IF address \in DOMAIN d.contributors THEN d.contributors[address].compositeScore
    ELSE 0

getTierThreshold(tier) ==
    CASE tier = RECOGNIZED -> 0
      [] tier = SILVER -> 100
      [] tier = GOLD -> 250
      [] tier = PLATINUM -> 500
      [] tier = FOUNDER -> 1000
      [] OTHER -> 0

\* a composite score rounded to the nearest integer instead of down
calculateCompositeScoreRounded(codeQuality, documentation, testing, innovation, community) ==
    (codeQuality * CODE_QUALITY_WEIGHT + documentation * DOCUMENTATION_WEIGHT
     + testing * TESTING_WEIGHT + innovation * INNOVATION_WEIGHT
     + community * COMMUNITY_WEIGHT + 50) \div 100

calculateCompositeScore(codeQuality, documentation, testing, innovation, community) ==
    (codeQuality * CODE_QUALITY_WEIGHT + documentation * DOCUMENTATION_WEIGHT
     + testing * TESTING_WEIGHT + innovation * INNOVATION_WEIGHT
     + community * COMMUNITY_WEIGHT) \div 100

\* the tier updateTier derives from a contributor's fields
TierFor(contrib) ==
    LET score == contrib.compositeScore
    IN IF score >= getTierThreshold(PLATINUM) THEN PLATINUM
       ELSE IF score >= getTierThreshold(GOLD) THEN GOLD
       ELSE IF score >= getTierThreshold(SILVER) THEN SILVER
       ELSE RECOGNIZED

updateTier(cs, address) ==
    IF address \notin DOMAIN cs THEN cs
    ELSE [cs EXCEPT ![address].tier = TierFor(cs[address])]

\* values[idx] after the loop over the score vector: the last score given for
\* the category idx, 0 when there is none
RECURSIVE CategoryValue(_, _, _)
CategoryValue(scores, idx, i) ==
    IF i = 0 THEN 0
    ELSE IF scores[i].category = idx THEN scores[i].score
    ELSE CategoryValue(scores, idx, i - 1)

submitCompositeScore(d, contributor, scores, time) ==
    IF contributor \notin DOMAIN d.contributors THEN [d |-> d, ret |-> FALSE]
    ELSE LET v(idx) == CategoryValue(scores, idx, Len(scores))
             newScore == calculateCompositeScore(v(0), v(1), v(2), v(3), v(4))
             c1 == [d.contributors EXCEPT
                       ![contributor].compositeScore = newScore,
                       ![contributor].pointsEarned = @ + newScore]
             c2 == updateTier(c1, contributor)
             c3 == [c2 EXCEPT ![contributor].auditTrail =
                                  Append(@, <<"score", contributor, time>>)]
         IN [d |-> [d EXCEPT !.contributors = c3], ret |-> TRUE]

applyModuleBonus(d, contributor, moduleId, bonusPoints) ==
    IF contributor \notin DOMAIN d.contributors THEN [d |-> d, ret |-> FALSE]
    ELSE LET c1 == [d.contributors EXCEPT
                       ![contributor].compositeScore = @ + bonusPoints,
                       ![contributor].pointsEarned = @ + bonusPoints]
         IN [d |-> [d EXCEPT !.contributors = updateTier(c1, contributor)],
             ret |-> TRUE]

\* std::map iterates its keys in increasing order
AddressOrder == <<"", "alice", "bob", "carol", "dave">>

\* the contributors of a tier, in the order of the contributors map
TierGroup(cs, tier) ==
    SelectSeq(AddressOrder, LAMBDA a : a \in DOMAIN cs /\ cs[a].tier = tier)

\* the payments distributeMonthlyRewards attempts, in order: tiers from FOUNDER
\* down to RECOGNIZED, each tier's share split evenly over its members
RECURSIVE Payments(_, _)
Payments(cs, tierIdx) ==
    IF tierIdx < 0 THEN <<>>
    ELSE LET group == TierGroup(cs, tierIdx)
             monthlyPool == UC_TO_UNITS(MONTHLY_REWARD_POOL)
             tierReward == (monthlyPool * REWARD_DISTRIBUTION[tierIdx + 1]) \div 100
         IN IF Len(group) = 0 THEN Payments(cs, tierIdx - 1)
            ELSE [i \in 1..Len(group) |->
                     [address |-> group[i], amount |-> tierReward \div Len(group)]]
                 \o Payments(cs, tierIdx - 1)

\* a payment loop that counts every payment attempted, paid or not
RECURSIVE PayAllAttempts(_, _, _, _, _, _, _)
PayAllAttempts(t, cs, pay, i, rewardedCount, timestamp, time) ==
    IF i > Len(pay) THEN [t |-> t, contributors |-> cs, rewardedCount |-> rewardedCount]
    ELSE LET r == distributeReward(t, pay[i].address, pay[i].amount, time)
         IN IF r.ret /\ pay[i].address \in DOMAIN cs
            THEN PayAllAttempts(r.t,
                        [cs EXCEPT ![pay[i].address].rewardsReceived = @ + pay[i].amount,
                                   ![pay[i].address].lastRewardClaimAt = timestamp],
                        pay, i + 1, rewardedCount + 1, timestamp, time)
            ELSE PayAllAttempts(r.t, cs, pay, i + 1, rewardedCount + 1, timestamp, time)

\* the loop body of distributeMonthlyRewards over the payments from i on
RECURSIVE PayAll(_, _, _, _, _, _, _)
PayAll(t, cs, pay, i, rewardedCount, timestamp, time) ==
    IF i > Len(pay) THEN [t |-> t, contributors |-> cs, rewardedCount |-> rewardedCount]
    ELSE LET r == distributeReward(t, pay[i].address, pay[i].amount, time)
         IN IF r.ret /\ pay[i].address \in DOMAIN cs
            THEN PayAll(r.t,
                        [cs EXCEPT ![pay[i].address].rewardsReceived = @ + pay[i].amount,
                                   ![pay[i].address].lastRewardClaimAt = timestamp],
                        pay, i + 1, rewardedCount + 1, timestamp, time)
            ELSE PayAll(r.t, cs, pay, i + 1, rewardedCount, timestamp, time)

distributeMonthlyRewards(d, t, timestamp, time) ==
    LET paid == PayAll(t, d.contributors, Payments(d.contributors, FOUNDER), 1, 0,
                       timestamp, time)
        d1 == [d EXCEPT !.contributors = paid.contributors,
                        !.totalRewardsDistributed = @ + UC_TO_UNITS(MONTHLY_REWARD_POOL),
                        !.lastRewardDistribution = timestamp]
    IN [d |-> recordGovernanceAction(d1), t |-> paid.t, ret |-> paid.rewardedCount]

getPendingReward(d, address) ==
    IF address \notin DOMAIN d.contributors THEN 0
    ELSE (UC_TO_UNITS(MONTHLY_REWARD_POOL)
          * REWARD_DISTRIBUTION[d.contributors[address].tier + 1]) \div 100

claimRewards(d, contributor, time) ==
    IF contributor \notin DOMAIN d.contributors THEN [d |-> d, ret |-> 0]
    ELSE LET pending == getPendingReward(d, contributor)
         IN IF pending > 0
            THEN [d |-> [d EXCEPT !.contributors[contributor].rewardsReceived = @ + pending,
                                  !.contributors[contributor].lastRewardClaimAt = time],
                  ret |-> pending]
            ELSE [d |-> d, ret |-> pending]

\* a createProposal that hands out the same id again
createProposalSameId(d, proposer, title, description, time) ==
    IF ~isContributor(d, proposer) THEN [d |-> d, ret |-> 0]
    ELSE LET proposal == [proposalId |-> d.nextProposalId, proposer |-> proposer,
                          title |-> title, description |-> description,
                          status |-> PENDING, votesFor |-> 0, votesAgainst |-> 0,
                          votesAbstain |-> 0, createdAt |-> time,
                          votingDeadline |-> time + PROPOSAL_VOTING_PERIOD_HOURS * 3600,
                          executionTime |-> 0]
         IN [d |-> recordGovernanceAction(
                       [d EXCEPT !.proposals = Put(@, d.nextProposalId, proposal)]),
             ret |-> d.nextProposalId]

createProposal(d, proposer, title, description, time) ==
    IF ~isContributor(d, proposer) THEN [d |-> d, ret |-> 0]
    ELSE LET proposal == [proposalId |-> d.nextProposalId, proposer |-> proposer,
                          title |-> title, description |-> description,
                          status |-> PENDING, votesFor |-> 0, votesAgainst |-> 0,
                          votesAbstain |-> 0, createdAt |-> time,
                          votingDeadline |-> time + PROPOSAL_VOTING_PERIOD_HOURS * 3600,
                          executionTime |-> 0]
         IN [d |-> recordGovernanceAction(
                       [d EXCEPT !.nextProposalId = @ + 1,
                                 !.proposals = Put(@, d.nextProposalId, proposal)]),
             ret |-> d.nextProposalId]

getVotingPower(d, address) == getTierVotingPower(getTier(d, address))

\* a castVote that records a vote whether or not the voter has voted
castVoteAgain(d, proposalId, voter, voteType, time) ==
    IF proposalId \notin DOMAIN d.proposals THEN [d |-> d, ret |-> FALSE]
    ELSE IF ~isContributor(d, voter) THEN [d |-> d, ret |-> FALSE]
    ELSE LET votingPower == getVotingPower(d, voter)
             vote == [proposalId |-> proposalId, voter |-> voter,
                      voteType |-> voteType, votingPower |-> votingPower,
                      votedAt |-> time]
             p == d.proposals[proposalId]
             p1 == IF voteType = VoteFOR
                   THEN [p EXCEPT !.votesFor = @ + votingPower]
                   ELSE IF voteType = VoteAGAINST
                   THEN [p EXCEPT !.votesAgainst = @ + votingPower]
                   ELSE [p EXCEPT !.votesAbstain = @ + votingPower]
         IN [d |-> [d EXCEPT !.votes = Put(@, <<proposalId, voter>>, vote),
                             !.proposals[proposalId] = p1],
             ret |-> TRUE]

\* a castVote that counts every vote once, whatever the voter's tier
castVoteHeadCount(d, proposalId, voter, voteType, time) ==
    IF proposalId \notin DOMAIN d.proposals THEN [d |-> d, ret |-> FALSE]
    ELSE IF ~isContributor(d, voter) THEN [d |-> d, ret |-> FALSE]
    ELSE IF <<proposalId, voter>> \in DOMAIN d.votes THEN [d |-> d, ret |-> FALSE]
    ELSE LET votingPower == 1
             vote == [proposalId |-> proposalId, voter |-> voter,
                      voteType |-> voteType, votingPower |-> votingPower,
                      votedAt |-> time]
             p == d.proposals[proposalId]
             p1 == IF voteType = VoteFOR
                   THEN [p EXCEPT !.votesFor = @ + votingPower]
                   ELSE IF voteType = VoteAGAINST
                   THEN [p EXCEPT !.votesAgainst = @ + votingPower]
                   ELSE [p EXCEPT !.votesAbstain = @ + votingPower]
         IN [d |-> [d EXCEPT !.votes = Put(@, <<proposalId, voter>>, vote),
                             !.proposals[proposalId] = p1],
             ret |-> TRUE]

\* a castVote that closes the vote as passed once the votes for the proposal
\* outweigh those against it
castVoteClosing(d, proposalId, voter, voteType, time) ==
    IF proposalId \notin DOMAIN d.proposals THEN [d |-> d, ret |-> FALSE]
    ELSE IF ~isContributor(d, voter) THEN [d |-> d, ret |-> FALSE]
    ELSE IF <<proposalId, voter>> \in DOMAIN d.votes THEN [d |-> d, ret |-> FALSE]
    ELSE LET votingPower == getVotingPower(d, voter)
             vote == [proposalId |-> proposalId, voter |-> voter,
                      voteType |-> voteType, votingPower |-> votingPower,
                      votedAt |-> time]
             p == d.proposals[proposalId]
             p1 == IF voteType = VoteFOR
                   THEN [p EXCEPT !.votesFor = @ + votingPower]
                   ELSE IF voteType = VoteAGAINST
                   THEN [p EXCEPT !.votesAgainst = @ + votingPower]
                   ELSE [p EXCEPT !.votesAbstain = @ + votingPower]
             p2 == IF p1.votesFor > p1.votesAgainst
                   THEN [p1 EXCEPT !.status = PASSED] ELSE p1
         IN [d |-> [d EXCEPT !.votes = Put(@, <<proposalId, voter>>, vote),
                             !.proposals[proposalId] = p2],
             ret |-> TRUE]

\* a castVote that records the voting power with the vote and adds one to
\* the tally
castVoteTallyHeads(d, proposalId, voter, voteType, time) ==
    IF proposalId \notin DOMAIN d.proposals THEN [d |-> d, ret |-> FALSE]
    ELSE IF ~isContributor(d, voter) THEN [d |-> d, ret |-> FALSE]
    ELSE IF <<proposalId, voter>> \in DOMAIN d.votes THEN [d |-> d, ret |-> FALSE]
    ELSE LET votingPower == getVotingPower(d, voter)
             vote == [proposalId |-> proposalId, voter |-> voter,
                      voteType |-> voteType, votingPower |-> votingPower,
                      votedAt |-> time]
             p == d.proposals[proposalId]
             p1 == IF voteType = VoteFOR
                   THEN [p EXCEPT !.votesFor = @ + 1]
                   ELSE IF voteType = VoteAGAINST
                   THEN [p EXCEPT !.votesAgainst = @ + 1]
                   ELSE [p EXCEPT !.votesAbstain = @ + 1]
         IN [d |-> [d EXCEPT !.votes = Put(@, <<proposalId, voter>>, vote),
                             !.proposals[proposalId] = p1],
             ret |-> TRUE]

castVote(d, proposalId, voter, voteType, time) ==
    IF proposalId \notin DOMAIN d.proposals THEN [d |-> d, ret |-> FALSE]
    ELSE IF ~isContributor(d, voter) THEN [d |-> d, ret |-> FALSE]
    ELSE IF <<proposalId, voter>> \in DOMAIN d.votes THEN [d |-> d, ret |-> FALSE]
    ELSE LET votingPower == getVotingPower(d, voter)
             vote == [proposalId |-> proposalId, voter |-> voter,
                      voteType |-> voteType, votingPower |-> votingPower,
                      votedAt |-> time]
             p == d.proposals[proposalId]
             p1 == IF voteType = VoteFOR
                   THEN [p EXCEPT !.votesFor = @ + votingPower]
                   ELSE IF voteType = VoteAGAINST
                   THEN [p EXCEPT !.votesAgainst = @ + votingPower]
                   ELSE [p EXCEPT !.votesAbstain = @ + votingPower]
         IN [d |-> [d EXCEPT !.votes = Put(@, <<proposalId, voter>>, vote),
                             !.proposals[proposalId] = p1],
             ret |-> TRUE]

\* an executeProposal that does not look at the status
executeProposalAnyStatus(d, proposalId, time) ==
    IF proposalId \notin DOMAIN d.proposals THEN [d |-> d, ret |-> FALSE]
    ELSE [d |-> recordGovernanceAction(
                    [d EXCEPT !.proposals[proposalId].status = EXECUTED,
                              !.proposals[proposalId].executionTime = time]),
          ret |-> TRUE]

executeProposal(d, proposalId, time) ==
    IF proposalId \notin DOMAIN d.proposals
       \/ d.proposals[proposalId].status # PASSED THEN [d |-> d, ret |-> FALSE]
    ELSE [d |-> recordGovernanceAction(
                    [d EXCEPT !.proposals[proposalId].status = EXECUTED,
                              !.proposals[proposalId].executionTime = time]),
          ret |-> TRUE]

getProposal(d, proposalId) ==
    IF proposalId \in DOMAIN d.proposals THEN d.proposals[proposalId]
    ELSE [proposalId |-> 0, proposer |-> "", title |-> "", description |-> "",
          status |-> PENDING, votesFor |-> 0, votesAgainst |-> 0,
          votesAbstain |-> 0, createdAt |-> 0, votingDeadline |-> 0,
          executionTime |-> 0]

(***************************************************************************)
(* OracleContract.  The fields are gathered in a record o.  auditLog is    *)
(* only ever appended to and never read: the model keeps the number of its *)
(* entries.                                                                *)
(***************************************************************************)
UNVERIFIED == 0
BASIC == 1
ADVANCED == 2
AUDIT_COMPLETE == 3

MAX_CATEGORY_SCORE == 100

Oracle == [submissions |-> submissions, verificationChains |-> verificationChains,
           gitRepositories |-> gitRepositories, merkleRoots |-> merkleRoots,
           verifiers |-> verifiers, auditLog |-> auditLog, challenges |-> challenges,
           totalVerifications |-> totalVerifications,
           acceptedVerifications |-> acceptedVerifications]

OracleInit == [submissions |-> <<>>, verificationChains |-> <<>>,
               gitRepositories |-> <<>>, merkleRoots |-> <<>>, verifiers |-> {},
               auditLog |-> 0, challenges |-> <<>>, totalVerifications |-> 0,
               acceptedVerifications |-> 0]

\* a ^ b on unsigned bytes
RECURSIVE Xor8(_, _)
Xor8(a, b) ==
    IF a = 0 THEN b
    ELSE IF b = 0 THEN a
    ELSE ((a + b) % 2) + 2 * Xor8(a \div 2, b \div 2)

ZeroHash256 == [i \in 1..32 |-> 0]
ZeroGitHash == [i \in 1..20 |-> 0]

isValidScore(score) == score >= 0 /\ score <= MAX_CATEGORY_SCORE

validateScores(cq, doc, test, innov, comm) ==
    isValidScore(cq) /\ isValidScore(doc) /\ isValidScore(test)
    /\ isValidScore(innov) /\ isValidScore(comm)

\* result[pos % 32] ^= score for the scores in order, then result[i] ^= gitSHA1[i]
RECURSIVE FoldScores(_, _, _)
FoldScores(h, scores, pos) ==
    IF pos >= Len(scores) THEN h
    ELSE FoldScores([h EXCEPT ![(pos % 32) + 1] = Xor8(@, scores[pos + 1].score)],
                    scores, pos + 1)

computeMerkleTree(submission) ==
    LET h == FoldScores(ZeroHash256, submission.scores, 0)
    IN [i \in 1..32 |-> IF i <= 20 THEN Xor8(h[i], submission.gitSHA1[i]) ELSE h[i]]

\* the empty string returned in place of an id
EmptyId == <<>>

recordAction(o) == [o EXCEPT !.auditLog = @ + 1]

isVerifier(o, address) == address \in o.verifiers

submitScore(o, contributor, cq, doc, test, innov, comm, gitRepository, evidenceHash, time) ==
    IF ~validateScores(cq, doc, test, innov, comm) THEN [o |-> o, ret |-> EmptyId]
    ELSE LET cs(cat, sc, ev) == [category |-> cat, score |-> sc, evidence |-> ev,
                                 submittedAt |-> time]
             submission ==
                 [submitter |-> contributor, targetContributor |-> contributor,
                  scores |-> << cs(0, cq, "Code Quality Review"),
                                cs(1, doc, "Documentation Review"),
                                cs(2, test, "Testing Coverage"),
                                cs(3, innov, "Innovation Assessment"),
                                cs(4, comm, "Community Impact") >>,
                  gitSHA1 |-> ZeroGitHash, dataHash |-> evidenceHash,
                  verificationLevel |-> UNVERIFIED, verifierCount |-> 0,
                  submittedAt |-> time, verificationChain |-> <<>>]
             submissionId == <<"sub", contributor, time>>
             o1 == [o EXCEPT !.submissions = Put(@, submissionId, submission),
                             !.merkleRoots = Put(@, submissionId,
                                                 computeMerkleTree(submission))]
             o2 == IF gitRepository # ""
                   THEN [o1 EXCEPT !.gitRepositories = Put(@, contributor, gitRepository)]
                   ELSE o1
         IN [o |-> recordAction(o2), ret |-> submissionId]

LevelAfter(verifierCount, approved, level) ==
    IF verifierCount >= 3 THEN (IF approved THEN AUDIT_COMPLETE ELSE BASIC)
    ELSE IF verifierCount >= 1 THEN (IF approved THEN ADVANCED ELSE BASIC)
    ELSE level

ChainOf(o, submissionId) ==
    IF submissionId \in DOMAIN o.verificationChains
    THEN o.verificationChains[submissionId] ELSE <<>>

\* a verifySubmission that takes the verdict of any caller
verifySubmissionAnyone(o, submissionId, verifier, approved, notes, time) ==
    IF submissionId \notin DOMAIN o.submissions
    THEN [o |-> o, ret |-> FALSE]
    ELSE LET record == [verifier |-> verifier, approved |-> approved,
                        notes |-> notes, verifiedAt |-> time]
             count == (o.submissions[submissionId].verifierCount + 1) % 256
             o1 == [o EXCEPT
                      !.verificationChains =
                          Put(@, submissionId, Append(ChainOf(o, submissionId), record)),
                      !.submissions[submissionId].verifierCount = count,
                      !.submissions[submissionId].verificationLevel =
                          LevelAfter(count, approved, @),
                      !.acceptedVerifications = IF approved THEN @ + 1 ELSE @,
                      !.totalVerifications = @ + 1]
         IN [o |-> recordAction(o1), ret |-> TRUE]

verifySubmission(o, submissionId, verifier, approved, notes, time) ==
    IF submissionId \notin DOMAIN o.submissions \/ ~isVerifier(o, verifier)
    THEN [o |-> o, ret |-> FALSE]
    ELSE LET record == [verifier |-> verifier, approved |-> approved,
                        notes |-> notes, verifiedAt |-> time]
             count == (o.submissions[submissionId].verifierCount + 1) % 256
             o1 == [o EXCEPT
                      !.verificationChains =
                          Put(@, submissionId, Append(ChainOf(o, submissionId), record)),
                      !.submissions[submissionId].verifierCount = count,
                      !.submissions[submissionId].verificationLevel =
                          LevelAfter(count, approved, @),
                      !.acceptedVerifications = IF approved THEN @ + 1 ELSE @,
                      !.totalVerifications = @ + 1]
         IN [o |-> recordAction(o1), ret |-> TRUE]

getVerificationStatus(o, submissionId) ==
    IF submissionId \in DOMAIN o.submissions
    THEN o.submissions[submissionId].verificationLevel ELSE UNVERIFIED

linkGitRepository(o, contributor, repoUrl) ==
    [o |-> [o EXCEPT !.gitRepositories = Put(@, contributor, repoUrl)], ret |-> TRUE]

registerVerifier(o, address) ==
    IF address \in o.verifiers THEN [o |-> o, ret |-> FALSE]
    ELSE [o |-> [o EXCEPT !.verifiers = @ \cup {address}], ret |-> TRUE]

removeVerifier(o, address) ==
    IF address \in o.verifiers
    THEN [o |-> [o EXCEPT !.verifiers = @ \ {address}], ret |-> TRUE]
    ELSE [o |-> o, ret |-> FALSE]

challengeVerification(o, submissionId, challenger, reason, time) ==
    IF submissionId \notin DOMAIN o.submissions THEN [o |-> o, ret |-> EmptyId]
    ELSE LET challengeId == <<"challenge", submissionId, time>>
         IN [o |-> recordAction([o EXCEPT !.challenges = Put(@, challengeId, FALSE)]),
             ret |-> challengeId]

resolveChallenge(o, challengeId, accepted) ==
    IF challengeId \notin DOMAIN o.challenges THEN [o |-> o, ret |-> FALSE]
    ELSE [o |-> [o EXCEPT !.challenges[challengeId] = TRUE], ret |-> TRUE]

\* a registerWithDao that forwards a known submission whatever its level
registerWithDaoAnyLevel(o, d, submissionId, time) ==
    IF submissionId \notin DOMAIN o.submissions THEN [d |-> d, ret |-> FALSE]
    ELSE submitCompositeScore(d, o.submissions[submissionId].targetContributor,
                              o.submissions[submissionId].scores, time)

registerWithDao(o, d, submissionId, time) ==
    IF submissionId \notin DOMAIN o.submissions THEN [d |-> d, ret |-> FALSE]
    ELSE IF o.submissions[submissionId].verificationLevel < ADVANCED
         THEN [d |-> d, ret |-> FALSE]
    ELSE submitCompositeScore(d, o.submissions[submissionId].targetContributor,
                              o.submissions[submissionId].scores, time)

isRegisteredWithDao(o, submissionId) ==
    IF submissionId \in DOMAIN o.submissions
    THEN o.submissions[submissionId].verificationLevel >= ADVANCED
    ELSE FALSE

(***************************************************************************)
(* The state machine: one action per public mutating method.               *)
(***************************************************************************)
SetToken(t) ==
    /\ accounts' = t.accounts
    /\ allowances' = t.allowances
    /\ transactionHistories' = t.transactionHistories
    /\ totalSupply' = t.totalSupply
    /\ treasuryBalance' = t.treasuryBalance
    /\ transactionCount' = t.transactionCount

SetDao(d) ==
    /\ contributors' = d.contributors
    /\ proposals' = d.proposals
    /\ votes' = d.votes
    /\ governanceLog' = d.governanceLog
    /\ nextProposalId' = d.nextProposalId
    /\ totalRewardsDistributed' = d.totalRewardsDistributed
    /\ lastRewardDistribution' = d.lastRewardDistribution

SetOracle(o) ==
    /\ submissions' = o.submissions
    /\ verificationChains' = o.verificationChains
    /\ gitRepositories' = o.gitRepositories
    /\ merkleRoots' = o.merkleRoots
    /\ verifiers' = o.verifiers
    /\ auditLog' = o.auditLog
    /\ challenges' = o.challenges
    /\ totalVerifications' = o.totalVerifications
    /\ acceptedVerifications' = o.acceptedVerifications

\* the callers that may be inside castVote at the same time, and the locals
\* of a caller that is not inside it
Callers == {1, 2}
Idle == [pc |-> "idle", proposalId |-> 0, voter |-> "", voteType |-> VoteFOR,
         votingPower |-> 0, tally |-> 0, ret |-> FALSE]

Init ==
    /\ now = 1
    /\ result = <<"none", 0>>
    /\ calls = 0
    /\ accounts = [TokenInit.accounts EXCEPT ![treasuryAddress].createdAt = 1]
    /\ allowances = TokenInit.allowances
    /\ transactionHistories = TokenInit.transactionHistories
    /\ totalSupply = TokenInit.totalSupply
    /\ treasuryBalance = TokenInit.treasuryBalance
    /\ transactionCount = TokenInit.transactionCount
    /\ contributors = DaoInit.contributors
    /\ proposals = DaoInit.proposals
    /\ votes = DaoInit.votes
    /\ governanceLog = DaoInit.governanceLog
    /\ nextProposalId = DaoInit.nextProposalId
    /\ totalRewardsDistributed = DaoInit.totalRewardsDistributed
    /\ lastRewardDistribution = DaoInit.lastRewardDistribution
    /\ submissions = OracleInit.submissions
    /\ verificationChains = OracleInit.verificationChains
    /\ gitRepositories = OracleInit.gitRepositories
    /\ merkleRoots = OracleInit.merkleRoots
    /\ verifiers = OracleInit.verifiers
    /\ auditLog = OracleInit.auditLog
    /\ challenges = OracleInit.challenges
    /\ totalVerifications = OracleInit.totalVerifications
    /\ acceptedVerifications = OracleInit.acceptedVerifications
    /\ inFlight = [t \in Callers |-> Idle]
    /\ user_totp_info = <<>>

\* the clock advances between calls
Tick ==
    /\ now < MaxTime
    /\ now' = now + 1
    /\ UNCHANGED <<tokenVars, daoVars, oracleVars, result, calls, inFlight,
                   user_totp_info>>

\* a call returns: its value is kept and the call is counted
Returns(op, ret) ==
    /\ result' = <<op, ret>>
    /\ calls' = IF calls < MaxCalls THEN calls + 1 ELSE calls
    /\ UNCHANGED <<inFlight, user_totp_info>>

LedgerCall(op, r) ==
    /\ SetToken(r.t)
    /\ Returns(op, r.ret)
    /\ UNCHANGED <<daoVars, oracleVars, now>>

TokenCall(op, r) ==
    /\ transactionCount < MaxTx
    /\ LedgerCall(op, r)

Transfer(recipient, amount) == TokenCall("transfer", transfer(Token, recipient, amount, now))

TransferFrom(owner, recipient, amount) ==
    TokenCall("transferFrom", transferFrom(Token, owner, recipient, amount, now))

Approve(spender, amount) == TokenCall("approve", approve(Token, spender, amount))

IncreaseAllowance(spender, addedValue) ==
    /\ allowance(Token, treasuryAddress, spender) <= UC_TO_UNITS(UC_TOKEN_SUPPLY)
    /\ TokenCall("increaseAllowance", increaseAllowance(Token, spender, addedValue))

DecreaseAllowance(spender, subtractedValue) ==
    TokenCall("decreaseAllowance", decreaseAllowance(Token, spender, subtractedValue))

Mint(account, amount) == TokenCall("mint", mint(Token, account, amount, now))

Burn(account, amount) == TokenCall("burn", burn(Token, account, amount))

DistributeReward(recipient, amount) ==
    TokenCall("distributeReward", distributeReward(Token, recipient, amount, now))

TreasuryWithdraw(recipient, amount) ==
    TokenCall("treasuryWithdraw", treasuryWithdraw(Token, recipient, amount, now))

TreasuryDeposit(contributor, amount) ==
    TokenCall("treasuryDeposit", treasuryDeposit(Token, contributor, amount))

RegisterAccount(account) == TokenCall("registerAccount", registerAccount(Token, account, now))

NextToken ==
    \/ \E a \in Addresses \cup BadAddresses, amount \in Amounts : Transfer(a, amount)
    \/ \E a \in Addresses, amount \in Amounts :
          \/ Approve(a, amount)
          \/ IncreaseAllowance(a, amount)
          \/ DecreaseAllowance(a, amount)
          \/ Mint(a, amount)
          \/ Burn(a, amount)
          \/ DistributeReward(a, amount)
          \/ TreasuryWithdraw(a, amount)
          \/ TreasuryDeposit(a, amount)
    \/ \E owner \in Addresses, recipient \in Addresses, amount \in Amounts :
          TransferFrom(owner, recipient, amount)
    \/ \E a \in Addresses \cup {""} : RegisterAccount(a)

\* the ledger alone
SpecToken == Init /\ [][NextToken]_vars

(***************************************************************************)
(* The registry.                                                           *)
(***************************************************************************)
DaoAddresses == {"alice", "bob"}
RewardAddresses == {"alice", "bob", "carol", "dave"}
Titles == {"", "title"}
BonusPoints == {100, 250}
VoteTypes == {VoteFOR, VoteAGAINST, VoteABSTAIN}

\* a score vector with every category set to v, and one with a single category
AllScores(v) == [i \in 1..5 |-> [category |-> i - 1, score |-> v]]
ScoreVectors == {AllScores(60), AllScores(100), AllScores(255),
                 <<[category |-> 0, score |-> 90]>>}

PointsOf(c) == IF c \in DOMAIN contributors THEN contributors[c].pointsEarned ELSE 0
TrailOf(c) == IF c \in DOMAIN contributors THEN contributors[c].auditTrail ELSE <<>>
RewardsOf(c) == IF c \in DOMAIN contributors THEN contributors[c].rewardsReceived ELSE 0

RegisterContributor(address) ==
    /\ LET r == registerContributor(Dao, address, now)
       IN SetDao(r.d) /\ Returns("registerContributor", r.ret)
    /\ UNCHANGED <<tokenVars, oracleVars, now>>

SubmitCompositeScore(contributor, scores) ==
    /\ Len(TrailOf(contributor)) < MaxScores
    /\ LET r == submitCompositeScore(Dao, contributor, scores, now)
       IN SetDao(r.d) /\ Returns("submitCompositeScore", r.ret)
    /\ UNCHANGED <<tokenVars, oracleVars, now>>

ApplyModuleBonus(contributor, moduleId, bonusPoints) ==
    /\ PointsOf(contributor) + bonusPoints <= MaxPoints
    /\ LET r == applyModuleBonus(Dao, contributor, moduleId, bonusPoints)
       IN SetDao(r.d) /\ Returns("applyModuleBonus", r.ret)
    /\ UNCHANGED <<tokenVars, oracleVars, now>>

DistributeMonthlyRewards(timestamp) ==
    /\ totalRewardsDistributed < MaxCycles * UC_TO_UNITS(MONTHLY_REWARD_POOL)
    /\ LET r == distributeMonthlyRewards(Dao, Token, timestamp, now)
       IN SetDao(r.d) /\ SetToken(r.t) /\ Returns("distributeMonthlyRewards", r.ret)
    /\ UNCHANGED <<oracleVars, now>>

ClaimRewards(contributor) ==
    /\ RewardsOf(contributor) < UC_TO_UNITS(MONTHLY_REWARD_POOL)
    /\ LET r == claimRewards(Dao, contributor, now)
       IN SetDao(r.d) /\ Returns("claimRewards", r.ret)
    /\ UNCHANGED <<tokenVars, oracleVars, now>>

CreateProposal(proposer, title, description) ==
    /\ nextProposalId <= MaxProposals
    /\ LET r == createProposal(Dao, proposer, title, description, now)
       IN SetDao(r.d) /\ Returns("createProposal", r.ret)
    /\ UNCHANGED <<tokenVars, oracleVars, now>>

CastVote(proposalId, voter, voteType) ==
    /\ LET r == castVote(Dao, proposalId, voter, voteType, now)
       IN SetDao(r.d) /\ Returns("castVote", r.ret)
    /\ UNCHANGED <<tokenVars, oracleVars, now>>

ExecuteProposal(proposalId) ==
    /\ LET r == executeProposal(Dao, proposalId, now)
       IN SetDao(r.d) /\ Returns("executeProposal", r.ret)
    /\ UNCHANGED <<tokenVars, oracleVars, now>>

\* scoring: contributors, composite scores, bonuses and tiers
NextDao ==
    \/ \E c \in DaoAddresses : RegisterContributor(c)
    \/ \E c \in DaoAddresses, sv \in ScoreVectors : SubmitCompositeScore(c, sv)
    \/ \E c \in DaoAddresses, b \in BonusPoints : ApplyModuleBonus(c, 1, b)

SpecDao == Init /\ [][NextDao]_vars

\* governance: proposals and votes of contributors whose tier changes
NextVote ==
    \/ \E c \in DaoAddresses : RegisterContributor(c)
    \/ \E c \in DaoAddresses : ApplyModuleBonus(c, 1, 250)
    \/ \E c \in DaoAddresses : CreateProposal(c, "title", "description")
    \/ \E p \in 1..MaxProposals, c \in DaoAddresses, vt \in VoteTypes :
          CastVote(p, c, vt)
    \/ \E p \in 1..MaxProposals : ExecuteProposal(p)

SpecVote == Init /\ [][NextVote]_vars

\* the monthly reward cycle: contributors spread over the tiers and the
\* treasury drawn on by withdrawals, up to the last of MaxCycles cycles
CyclesLeft == totalRewardsDistributed < MaxCycles * UC_TO_UNITS(MONTHLY_REWARD_POOL)

NextRewards ==
    \/ \E c \in RewardAddresses : CyclesLeft /\ RegisterContributor(c)
    \/ \E c \in RewardAddresses, b \in BonusPoints :
          CyclesLeft /\ ApplyModuleBonus(c, 1, b)
    \/ DistributeMonthlyRewards(now)
    \/ \E amount \in Amounts : CyclesLeft /\ TreasuryWithdraw("alice", amount)

SpecRewards == Init /\ [][NextRewards]_vars

(***************************************************************************)
(* The oracle.                                                             *)
(***************************************************************************)
OracleAddresses == {"alice"}
VerifierAddresses == {"v1", "v2"}
SubmissionIds == {<<"sub", c, time>> : c \in OracleAddresses, time \in 1..MaxTime}
ChallengeIds == {<<"challenge", id, time>> : id \in SubmissionIds, time \in 1..MaxTime}
CategoryScores == {<<60, 60, 60, 60, 60>>, <<100, 100, 100, 100, 100>>,
                   <<101, 0, 0, 0, 0>>}
Repositories == {"", "https://github.com/test/repo"}

SubmitScore(contributor, sc, gitRepository, evidenceHash) ==
    /\ auditLog < MaxAudit
    /\ LET r == submitScore(Oracle, contributor, sc[1], sc[2], sc[3], sc[4], sc[5],
                            gitRepository, evidenceHash, now)
       IN SetOracle(r.o) /\ Returns("submitScore", r.ret)
    /\ UNCHANGED <<tokenVars, daoVars, now>>

VerifySubmission(submissionId, verifier, approved, notes) ==
    /\ totalVerifications < MaxVerifications
    /\ LET r == verifySubmission(Oracle, submissionId, verifier, approved, notes, now)
       IN SetOracle(r.o) /\ Returns("verifySubmission", r.ret)
    /\ UNCHANGED <<tokenVars, daoVars, now>>

LinkGitRepository(contributor, repoUrl) ==
    /\ LET r == linkGitRepository(Oracle, contributor, repoUrl)
       IN SetOracle(r.o) /\ Returns("linkGitRepository", r.ret)
    /\ UNCHANGED <<tokenVars, daoVars, now>>

RegisterVerifier(address) ==
    /\ LET r == registerVerifier(Oracle, address)
       IN SetOracle(r.o) /\ Returns("registerVerifier", r.ret)
    /\ UNCHANGED <<tokenVars, daoVars, now>>

RemoveVerifier(address) ==
    /\ LET r == removeVerifier(Oracle, address)
       IN SetOracle(r.o) /\ Returns("removeVerifier", r.ret)
    /\ UNCHANGED <<tokenVars, daoVars, now>>

ChallengeVerification(submissionId, challenger, reason) ==
    /\ auditLog < MaxAudit
    /\ LET r == challengeVerification(Oracle, submissionId, challenger, reason, now)
       IN SetOracle(r.o) /\ Returns("challengeVerification", r.ret)
    /\ UNCHANGED <<tokenVars, daoVars, now>>

ResolveChallenge(challengeId, accepted) ==
    /\ LET r == resolveChallenge(Oracle, challengeId, accepted)
       IN SetOracle(r.o) /\ Returns("resolveChallenge", r.ret)
    /\ UNCHANGED <<tokenVars, daoVars, now>>

RegisterWithDao(submissionId) ==
    /\ \A id \in DOMAIN submissions :
          Len(TrailOf(submissions[id].targetContributor)) < MaxScores
    /\ LET r == registerWithDao(Oracle, Dao, submissionId, now)
       IN SetDao(r.d) /\ Returns("registerWithDao", r.ret)
    /\ UNCHANGED <<tokenVars, oracleVars, now>>

\* submission and verification, with no challenge resolved
NextOracle ==
    \/ Tick
    \/ \E v \in VerifierAddresses : RegisterVerifier(v)
    \/ \E v \in VerifierAddresses : RemoveVerifier(v)
    \/ \E c \in OracleAddresses, sc \in CategoryScores :
          SubmitScore(c, sc, "", ZeroHash256)
    \/ \E id \in SubmissionIds, v \in VerifierAddresses, approved \in BOOLEAN :
          VerifySubmission(id, v, approved, "notes")
    \/ \E id \in SubmissionIds : ChallengeVerification(id, "bob", "reason")

SpecOracle == Init /\ [][NextOracle]_vars

\* forwarding of verified submissions into the registry
NextForward ==
    \/ Tick
    \/ \E c \in OracleAddresses : RegisterContributor(c)
    \/ RegisterVerifier("v1")
    \/ \E c \in OracleAddresses, sc \in CategoryScores :
          SubmitScore(c, sc, "", ZeroHash256)
    \/ \E id \in SubmissionIds, approved \in BOOLEAN :
          VerifySubmission(id, "v1", approved, "notes")
    \/ \E id \in SubmissionIds : RegisterWithDao(id)

SpecForward == Init /\ [][NextForward]_vars

(***************************************************************************)
(* The three contracts together: every public mutating method, called by   *)
(* and for one account, up to MaxCalls calls.                              *)
(***************************************************************************)
CallsLeft == calls < MaxCalls

CallAddresses == {"", "alice"}
CallAmounts == {0, UC_TO_UNITS(UC_TOKEN_SUPPLY) \div 2, UC_TO_UNITS(UC_TOKEN_SUPPLY)}

\* the ids passed in: the ids that the current second gives a submission of
\* alice and a challenge to it, and ids that nothing has
CallSubmissionIds == {<<"sub", "alice", time>> : time \in {now, now + 1}}
CallChallengeIds ==
    {<<"challenge", id, time>> : id \in CallSubmissionIds, time \in {now, now + 1}}

Next ==
    \/ \E a \in CallAddresses, amount \in CallAmounts :
          \/ CallsLeft /\ Transfer(a, amount)
          \/ CallsLeft /\ Approve(a, amount)
          \/ CallsLeft /\ IncreaseAllowance(a, amount)
          \/ CallsLeft /\ DecreaseAllowance(a, amount)
          \/ CallsLeft /\ Mint(a, amount)
          \/ CallsLeft /\ Burn(a, amount)
          \/ CallsLeft /\ DistributeReward(a, amount)
          \/ CallsLeft /\ TreasuryWithdraw(a, amount)
          \/ CallsLeft /\ TreasuryDeposit(a, amount)
    \/ \E owner \in {treasuryAddress, "alice"}, amount \in CallAmounts :
          CallsLeft /\ TransferFrom(owner, "alice", amount)
    \/ \E a \in CallAddresses : CallsLeft /\ RegisterAccount(a)
    \/ CallsLeft /\ RegisterContributor("alice")
    \/ \E c \in DaoAddresses : CallsLeft /\ SubmitCompositeScore(c, AllScores(60))
    \/ \E c \in DaoAddresses : CallsLeft /\ ApplyModuleBonus(c, 1, 250)
    \/ CallsLeft /\ DistributeMonthlyRewards(now)
    \/ \E c \in DaoAddresses : CallsLeft /\ ClaimRewards(c)
    \/ \E c \in DaoAddresses, title \in Titles : CallsLeft /\ CreateProposal(c, title, title)
    \/ \E p \in 1..MaxProposals, c \in DaoAddresses, vt \in VoteTypes :
          CallsLeft /\ CastVote(p, c, vt)
    \/ \E p \in 1..MaxProposals : CallsLeft /\ ExecuteProposal(p)
    \/ CallsLeft /\ RegisterVerifier("v1")
    \/ \E v \in VerifierAddresses : CallsLeft /\ RemoveVerifier(v)
    \/ \E sc \in CategoryScores, repo \in Repositories :
          CallsLeft /\ SubmitScore("alice", sc, repo, ZeroHash256)
    \/ \E id \in CallSubmissionIds, v \in VerifierAddresses, approved \in BOOLEAN :
          CallsLeft /\ VerifySubmission(id, v, approved, "notes")
    \/ \E repo \in Repositories : CallsLeft /\ LinkGitRepository("alice", repo)
    \/ \E id \in CallSubmissionIds : CallsLeft /\ ChallengeVerification(id, "bob", "reason")
    \/ \E id \in CallChallengeIds, accepted \in BOOLEAN :
          CallsLeft /\ ResolveChallenge(id, accepted)
    \/ \E id \in CallSubmissionIds : CallsLeft /\ RegisterWithDao(id)

Spec == Init /\ [][Next]_vars

(***************************************************************************)
(* Properties of the ledger, checked under SpecToken.                      *)
(***************************************************************************)
Rejected == result'[2] = FALSE /\ UNCHANGED tokenVars

\* C1: after any sequence of ledger operations the sum of balanceOf over all
\* accounts, added up as verifyIntegrity adds it, equals getTotalSupply(),
\* that is verifyIntegrity() is true.
C1_SupplyConserved == verifyIntegrity(Token)

\* two transactions have happened: the supply has shrunk and what is left has
\* moved out of the treasury
C1_Witness ==
    /\ transactionCount = 2
    /\ totalSupply < UC_TO_UNITS(UC_TOKEN_SUPPLY)
    /\ balanceOf(Token, "alice") > 0

\* C2: a call of transfer, transferFrom, burn, distributeReward,
\* treasuryWithdraw, treasuryDeposit or decreaseAllowance that would debit
\* more than the balance or allowance it draws on returns false and changes
\* nothing, so no balance or allowance ever wraps below zero.
C2_OverDebitRejected ==
    [][\A a \in Addresses, amount \in Amounts :
          /\ (Transfer(a, amount) /\ balanceOf(Token, treasuryAddress) < amount)
                => Rejected
          /\ (Burn(a, amount) /\ balanceOf(Token, a) < amount) => Rejected
          /\ (DistributeReward(a, amount)
                /\ balanceOf(Token, treasuryAddress) < amount) => Rejected
          /\ (TreasuryWithdraw(a, amount)
                /\ balanceOf(Token, treasuryAddress) < amount) => Rejected
          /\ (TreasuryDeposit(a, amount) /\ balanceOf(Token, a) < amount)
                => Rejected
          /\ (DecreaseAllowance(a, amount)
                /\ allowance(Token, treasuryAddress, a) < amount) => Rejected
          /\ \A owner \in Addresses :
                (TransferFrom(owner, a, amount)
                   /\ (balanceOf(Token, owner) < amount
                       \/ allowance(Token, owner, a) < amount)) => Rejected
    ]_vars

\* C15: transfer(recipient, amount) succeeds exactly when recipient is
\* non-empty and at most 256 characters long, amount is greater than zero and
\* the treasury account's balance is at least amount; on success the
\* treasury's balance goes down by exactly amount and balanceOf(recipient)
\* goes up by exactly amount.
C15_TransferExactly ==
    \A a \in Addresses \cup BadAddresses, amount \in Amounts :
        LET r == transfer(Token, a, amount, now)
            bal == balanceOf(Token, treasuryAddress)
            ok == a # "" /\ Len(a) <= 256 /\ amount > 0 /\ bal >= amount
        IN /\ r.ret = ok
           /\ ok => /\ balanceOf(r.t, treasuryAddress) = bal - amount
                    /\ balanceOf(r.t, a) = balanceOf(Token, a) + amount

\* C15 as amended: transfer succeeds exactly when recipient is non-empty and
\* at most 256 characters long, amount is greater than zero and at most
\* getTotalSupply(), and the treasury's balance is at least amount; a failed
\* call changes nothing; on success with a recipient other than the treasury,
\* the treasury's balance goes down by exactly amount and the recipient, created
\* with balance 0 if absent, goes up by exactly amount in unsigned arithmetic;
\* with the treasury as recipient its balance stays as it was.
C15_TransferExactlyAmended ==
    \A a \in Addresses \cup BadAddresses, amount \in Amounts :
        LET r == transfer(Token, a, amount, now)
            bal == balanceOf(Token, treasuryAddress)
            ok == /\ a # "" /\ Len(a) <= 256
                  /\ amount > 0 /\ amount <= totalSupply
                  /\ bal >= amount
        IN /\ r.ret = ok
           /\ ~ok => r.t = Token
           /\ (ok /\ a # treasuryAddress)
                 => /\ balanceOf(r.t, treasuryAddress) = bal - amount
                    /\ a \in DOMAIN r.t.accounts
                    /\ balanceOf(r.t, a) = UAdd(balanceOf(Token, a), amount)
           /\ (ok /\ a = treasuryAddress) => balanceOf(r.t, treasuryAddress) = bal

\* two transfers have emptied the treasury into one account
C15_Witness ==
    /\ result = <<"transfer", TRUE>>
    /\ transactionCount = 2
    /\ totalSupply = UC_TO_UNITS(UC_TOKEN_SUPPLY)
    /\ balanceOf(Token, treasuryAddress) = 0
    /\ balanceOf(Token, "alice") = UC_TO_UNITS(UC_TOKEN_SUPPLY)

\* C16: transferFrom(owner, recipient, amount) succeeds only if
\* allowance(owner, recipient) >= amount and balanceOf(owner) >= amount; on
\* success balanceOf(owner) goes down by amount, balanceOf(recipient) goes up
\* by amount and allowance(owner, recipient) goes down by exactly amount;
\* otherwise no balance or allowance changes.
C16_TransferFromExactly ==
    \A owner \in Addresses, recipient \in Addresses, amount \in Amounts :
        LET r == transferFrom(Token, owner, recipient, amount, now)
        IN IF r.ret
           THEN /\ allowance(Token, owner, recipient) >= amount
                /\ balanceOf(Token, owner) >= amount
                /\ balanceOf(r.t, owner) = balanceOf(Token, owner) - amount
                /\ balanceOf(r.t, recipient) = balanceOf(Token, recipient) + amount
                /\ allowance(r.t, owner, recipient)
                      = allowance(Token, owner, recipient) - amount
           ELSE r.t.accounts = accounts /\ r.t.allowances = allowances

\* C16 as amended: as C16 for an owner other than the recipient, the
\* recipient's balance going up in unsigned arithmetic; with the owner as
\* recipient the call succeeds under the same conditions, the allowance goes
\* down by exactly amount and the owner's balance stays as it was.
C16_TransferFromExactlyAmended ==
    \A owner \in Addresses, recipient \in Addresses, amount \in Amounts :
        LET r == transferFrom(Token, owner, recipient, amount, now)
        IN IF r.ret
           THEN /\ allowance(Token, owner, recipient) >= amount
                /\ balanceOf(Token, owner) >= amount
                /\ allowance(r.t, owner, recipient)
                      = allowance(Token, owner, recipient) - amount
                /\ IF owner = recipient
                   THEN balanceOf(r.t, owner) = balanceOf(Token, owner)
                   ELSE /\ balanceOf(r.t, owner) = balanceOf(Token, owner) - amount
                        /\ balanceOf(r.t, recipient)
                              = UAdd(balanceOf(Token, recipient), amount)
                /\ \A a \in DOMAIN accounts \ {owner, recipient} :
                      balanceOf(r.t, a) = balanceOf(Token, a)
           ELSE r.t.accounts = accounts /\ r.t.allowances = allowances

\* half of an allowance of the whole supply has just been drawn
C16_Witness ==
    /\ result = <<"transferFrom", TRUE>>
    /\ transactionCount = 1
    /\ balanceOf(Token, "alice") = UC_TO_UNITS(UC_TOKEN_SUPPLY) \div 2
    /\ balanceOf(Token, treasuryAddress) = UC_TO_UNITS(UC_TOKEN_SUPPLY) \div 2
    /\ allowance(Token, treasuryAddress, "alice") = UC_TO_UNITS(UC_TOKEN_SUPPLY) \div 2

\* C17: once owner and spender are registered accounts, a successful
\* approve(spender, amount) makes allowance(owner, spender) return amount,
\* for any owner and spender.
C17_ApprovalReadableUnderOwner ==
    \A owner \in Addresses, spender \in Addresses, amount \in Amounts :
        (owner \in DOMAIN accounts /\ spender \in DOMAIN accounts)
           => LET r == approve(Token, spender, amount)
              IN r.ret => allowance(r.t, owner, spender) = amount

\* the supply alone: mints of as much as validateAmount lets through, which is
\* the whole supply, and burns
NextSupply ==
    \/ \E a \in Addresses :
          /\ transactionCount < MaxMints
          /\ LedgerCall("mint", mint(Token, a, totalSupply, now))
    \/ \E a \in Addresses, amount \in Amounts :
          /\ transactionCount < MaxMints
          /\ LedgerCall("burn", burn(Token, a, amount))

SpecSupply == Init /\ [][NextSupply]_vars

\* C18: a successful mint(account, amount) raises balanceOf(account) and
\* getTotalSupply() each by exactly amount; burn(account, amount) fails with
\* no change when balanceOf(account) < amount and otherwise lowers both by
\* exactly amount; no other account's balance changes, and a mint followed
\* by a burn of the same amount on the same account restores both values.
\* Checked under SpecSupply.
C18_MintBurnExactly ==
    \A a \in Addresses, amount \in Amounts :
        LET m == mint(Token, a, amount, now)
            b == burn(Token, a, amount)
            mb == burn(m.t, a, amount)
            Others(t) == \A x \in DOMAIN accounts \ {a} :
                            balanceOf(t, x) = balanceOf(Token, x)
        IN /\ m.ret => /\ balanceOf(m.t, a) = balanceOf(Token, a) + amount
                       /\ m.t.totalSupply = totalSupply + amount
                       /\ Others(m.t)
           /\ balanceOf(Token, a) < amount => (~b.ret /\ b.t = Token)
           /\ balanceOf(Token, a) >= amount
                 => /\ balanceOf(b.t, a) = balanceOf(Token, a) - amount
                    /\ b.t.totalSupply = totalSupply - amount
                    /\ Others(b.t)
           /\ m.ret => /\ balanceOf(mb.t, a) = balanceOf(Token, a)
                       /\ mb.t.totalSupply = totalSupply

(***************************************************************************)
(* Properties of the registry.                                             *)
(***************************************************************************)
\* C4: once castVote(p, v, T) has succeeded, every later castVote(p, v, T')
\* returns false; the stored vote keeps its type and power and the tallies
\* votesFor, votesAgainst and votesAbstain of p stay as they were: in every
\* state in which v has a vote on p, castVote(p, v, T') returns false and
\* leaves votes and proposals as they are.  Checked under SpecVote.
C4_OneVotePerVoter ==
    \A p \in 1..MaxProposals, v \in DaoAddresses, vt \in VoteTypes :
        <<p, v>> \in DOMAIN votes
           => LET r == castVote(Dao, p, v, vt, now)
              IN /\ r.ret = FALSE
                 /\ r.d.votes = votes
                 /\ r.d.proposals = proposals

\* every contributor has voted on proposal 1 and one of them has just tried
\* again, with a voting power that is no longer the one the vote was cast with
C4_Witness ==
    /\ result = <<"castVote", FALSE>>
    /\ \A v \in DaoAddresses : <<1, v>> \in DOMAIN votes
    /\ \A v \in DaoAddresses : votes[<<1, v>>].votingPower < getVotingPower(Dao, v)
    /\ proposals[1].votesFor > 0 /\ proposals[1].votesAgainst > 0

\* C5: for every registered contributor getTier is the highest of Recognized
\* (0), Silver (100), Gold (250) and Platinum (500) whose threshold does not
\* exceed the contributor's cumulative pointsEarned.  Checked under SpecDao.
C5_TierFollowsPoints ==
    \A c \in DOMAIN contributors :
        getTier(Dao, c) = (IF contributors[c].pointsEarned >= 500 THEN PLATINUM
                           ELSE IF contributors[c].pointsEarned >= 250 THEN GOLD
                           ELSE IF contributors[c].pointsEarned >= 100 THEN SILVER
                           ELSE RECOGNIZED)

\* contributors at every stage: registered, scored, promoted and rewarded
NextRegistry ==
    \/ \E c \in DaoAddresses : RegisterContributor(c)
    \/ \E c \in DaoAddresses : SubmitCompositeScore(c, AllScores(100))
    \/ \E c \in DaoAddresses : ApplyModuleBonus(c, 1, 250)
    \/ \E c \in DaoAddresses : ClaimRewards(c)

SpecRegistry == Init /\ [][NextRegistry]_vars

\* C19: registerContributor(address) on an unregistered address creates a
\* contributor with tier Recognized, composite score 0, pointsEarned 0 and
\* rewardsReceived 0; on a registered address it returns false and changes
\* nothing of the registry, so the contributor's tier, score, points, rewards
\* and audit trail stay; and no step removes a contributor.
\* Checked under SpecRegistry.
C19_RegisterOnce ==
    [][/\ \A c \in DaoAddresses :
             RegisterContributor(c)
                => IF c \in DOMAIN contributors
                   THEN result'[2] = FALSE /\ UNCHANGED daoVars
                   ELSE /\ result'[2] = TRUE
                        /\ DOMAIN contributors' = DOMAIN contributors \cup {c}
                        /\ contributors'[c].tier = RECOGNIZED
                        /\ contributors'[c].compositeScore = 0
                        /\ contributors'[c].pointsEarned = 0
                        /\ contributors'[c].rewardsReceived = 0
                        /\ \A x \in DOMAIN contributors :
                              contributors'[x] = contributors[x]
       /\ DOMAIN contributors \subseteq DOMAIN contributors'
    ]_vars

\* a contributor with a score, a tier above Recognized, rewards and an audit
\* trail has just been turned down on registering again
C19_Witness ==
    /\ result = <<"registerContributor", FALSE>>
    /\ \E c \in DOMAIN contributors :
          /\ contributors[c].tier > RECOGNIZED
          /\ contributors[c].compositeScore > 0
          /\ contributors[c].pointsEarned > 0
          /\ contributors[c].rewardsReceived > 0
          /\ contributors[c].auditTrail # <<>>

\* five category scores that differ, with a weighted sum of 9160
UnevenScores ==
    <<[category |-> 0, score |-> 100], [category |-> 1, score |-> 90],
      [category |-> 2, score |-> 85], [category |-> 3, score |-> 95],
      [category |-> 4, score |-> 84]>>

FiveScores == {AllScores(0), AllScores(100), UnevenScores}

\* scores submitted to the registry directly
NextScoring ==
    \/ \E c \in DaoAddresses : RegisterContributor(c)
    \/ \E c \in DaoAddresses, sv \in FiveScores : SubmitCompositeScore(c, sv)
    \/ \E c \in DaoAddresses : ApplyModuleBonus(c, 1, 250)

SpecScoring == Init /\ [][NextScoring]_vars

\* C20: submitCompositeScore on a registered contributor sets compositeScore
\* to floor((code*25 + docs*20 + testing*20 + innovation*20 + community*15)
\* / 100), which lies in 0..100 when the five scores do (all 100 gives 100,
\* hence Silver and not Gold for a fresh contributor), adds that value to
\* pointsEarned and appends one audit-trail entry; for an unregistered
\* contributor it returns false and changes nothing.
\* Checked under SpecScoring.
C20_CompositeScoreExact ==
    \A c \in DaoAddresses, sv \in FiveScores :
        LET r == submitCompositeScore(Dao, c, sv, now)
            w == (sv[1].score * 25 + sv[2].score * 20 + sv[3].score * 20
                  + sv[4].score * 20 + sv[5].score * 15) \div 100
        IN IF c \notin DOMAIN contributors
           THEN r.ret = FALSE /\ r.d = Dao
           ELSE LET old == contributors[c]
                    new == r.d.contributors[c]
                IN /\ r.ret = TRUE
                   /\ new.compositeScore = w
                   /\ w \in 0..100
                   /\ new.pointsEarned = old.pointsEarned + w
                   /\ Len(new.auditTrail) = Len(old.auditTrail) + 1
                   /\ SubSeq(new.auditTrail, 1, Len(old.auditTrail)) = old.auditTrail
                   /\ sv = AllScores(100) => (w = 100 /\ new.tier = SILVER)

\* a contributor has been scored twice, the second time with the uneven
\* scores: 9160 / 100 rounded down on top of 100 points
C20_Witness ==
    /\ result = <<"submitCompositeScore", TRUE>>
    /\ \E c \in DOMAIN contributors :
          /\ contributors[c].compositeScore = 91
          /\ contributors[c].pointsEarned = 191
          /\ Len(contributors[c].auditTrail) = 2

(***************************************************************************)
(* Properties of the oracle.                                               *)
(***************************************************************************)
\* three verifiers at work on the submissions of one instant
QuorumVerifiers == {"v1", "v2", "v3"}

NextQuorum ==
    \/ \E v \in QuorumVerifiers : RegisterVerifier(v)
    \/ \E c \in OracleAddresses : SubmitScore(c, <<60, 60, 60, 60, 60>>, "", ZeroHash256)
    \/ \E id \in SubmissionIds, v \in QuorumVerifiers, approved \in BOOLEAN :
          VerifySubmission(id, v, approved, "notes")

SpecQuorum == Init /\ [][NextQuorum]_vars

LevelOf(id) == submissions[id].verificationLevel
Chain(id) == ChainOf(Oracle, id)

\* C6: a submission is AuditComplete if and only if it has at least 3
\* verification records and the most recent one is an approval.
\* Checked under SpecOracle.
C6_AuditCompleteIffThreeAndApproved ==
    \A id \in DOMAIN submissions :
        (LevelOf(id) = AUDIT_COMPLETE)
           <=> (Len(Chain(id)) >= 3 /\ Chain(id)[Len(Chain(id))].approved)

\* C7: an AuditComplete submission has approving records of at least 3
\* pairwise distinct verifiers in its chain.  Checked under SpecQuorum.
C7_QuorumOfDistinctVerifiers ==
    \A id \in DOMAIN submissions :
        LevelOf(id) = AUDIT_COMPLETE
           => Cardinality({Chain(id)[i].verifier :
                             i \in {j \in 1..Len(Chain(id)) : Chain(id)[j].approved}}) >= 3

\* C8: with no resolveChallenge among the calls, the verification level of a
\* submission id never decreases in the order Unverified < Basic < Advanced
\* < AuditComplete.  Checked under SpecOracle, which resolves no challenge.
C8_LevelNeverDecreases ==
    [][\A id \in DOMAIN submissions :
          id \in DOMAIN submissions' /\ submissions'[id].verificationLevel >= LevelOf(id)
    ]_vars

(***************************************************************************)
(* Properties of the reward cycle and of forwarding.                       *)
(***************************************************************************)
\* C9: one distributeMonthlyRewards call debits the treasury by at most the
\* monthly pool of 30 UC, and every account it credits is a contributor
\* registered when the call starts.  Checked under SpecRewards.
C9_CycleWithinPool ==
    [][DistributeMonthlyRewards(now)
          => /\ USub(balanceOf(Token, treasuryAddress),
                     accounts'[treasuryAddress].balance)
                   <= UC_TO_UNITS(MONTHLY_REWARD_POOL)
             /\ \A a \in DOMAIN accounts' :
                   (a \notin DOMAIN accounts
                    \/ accounts'[a].balance > balanceOf(Token, a))
                      => a \in DOMAIN contributors
    ]_vars

\* C10: however often registerWithDao(id) is called, a submission id is
\* forwarded at most once: a contributor's audit trail, which grows by one
\* entry with every score added to pointsEarned, is never longer than the
\* number of submission ids that target the contributor.
\* Checked under SpecForward, where scores reach the registry by forwarding only.
C10_ForwardedAtMostOnce ==
    \A c \in DOMAIN contributors :
        Len(contributors[c].auditTrail)
           <= Cardinality({id \in DOMAIN submissions :
                             submissions[id].targetContributor = c})

\* the approving records in the chain of a submission id
Approvals(id) == Cardinality({i \in 1..Len(Chain(id)) : Chain(id)[i].approved})

\* the composite score of the five category scores of a submission
ScoreOf(s) ==
    calculateCompositeScore(s.scores[1].score, s.scores[2].score, s.scores[3].score,
                            s.scores[4].score, s.scores[5].score)

\* the gate of forwarding: the submissions of one instant, verified and
\* forwarded; the ids of later instants stay unknown
NextGate ==
    \/ \E c \in OracleAddresses : RegisterContributor(c)
    \/ RegisterVerifier("v1")
    \/ \E c \in OracleAddresses, sc \in CategoryScores :
          SubmitScore(c, sc, "", ZeroHash256)
    \/ \E id \in SubmissionIds, approved \in BOOLEAN :
          VerifySubmission(id, "v1", approved, "notes")
    \/ \E id \in SubmissionIds : RegisterWithDao(id)

SpecGate == Init /\ [][NextGate]_vars

\* C11: registerWithDao(id) returns false and leaves the registry as it was
\* when the submission is unknown or its level is below Advanced; at Advanced
\* or AuditComplete it hands the five category scores to submitCompositeScore
\* for the target contributor: a registered target gets their composite score
\* and no other contributor changes.  Checked under SpecGate.
C11_ForwardGatedByLevel ==
    \A id \in SubmissionIds :
        LET r == registerWithDao(Oracle, Dao, id, now)
        IN IF id \notin DOMAIN submissions \/ LevelOf(id) < ADVANCED
           THEN r.ret = FALSE /\ r.d = Dao
           ELSE LET c == submissions[id].targetContributor
                IN c \in DOMAIN contributors
                      => /\ r.ret = TRUE
                         /\ r.d.contributors[c].compositeScore = ScoreOf(submissions[id])
                         /\ \A x \in DOMAIN contributors \ {c} :
                               r.d.contributors[x] = contributors[x]

\* a forwarding has just been turned down: the one submission there is has
\* been verified three times, the last time with a rejection, and is at
\* Basic, and the contributor is registered and has no score yet
C11_Witness ==
    /\ result = <<"registerWithDao", FALSE>>
    /\ totalVerifications = 3
    /\ \E id \in DOMAIN submissions : LevelOf(id) = BASIC /\ Approvals(id) = 2
    /\ \A c \in OracleAddresses : c \in DOMAIN contributors /\ TrailOf(c) = <<>>

\* C12: a contributor's composite score and pointsEarned change through
\* registerWithDao only for a submission with at least 3 approvals recorded
\* before the forwarding.  Checked under SpecForward.
C12_ForwardedOnlyAfterQuorum ==
    [][\A id \in SubmissionIds :
          (RegisterWithDao(id) /\ contributors' # contributors) => Approvals(id) >= 3
    ]_vars

\* C13: a successful submitScore returns an id that no existing submission
\* has, also when the same contributor submits twice at the same timestamp,
\* and leaves every existing submission (scores, verifier count, level) and
\* its Merkle root as they were.  Checked under SpecOracle.
C13_SubmissionIdsUnique ==
    [][\A c \in OracleAddresses, sc \in CategoryScores :
          (SubmitScore(c, sc, "", ZeroHash256) /\ result'[2] # EmptyId)
             => /\ result'[2] \notin DOMAIN submissions
                /\ \A id \in DOMAIN submissions :
                      /\ submissions'[id] = submissions[id]
                      /\ merkleRoots'[id] = merkleRoots[id]
    ]_vars

\* challenges raised and resolved
NextChallenge ==
    \/ Tick
    \/ \E c \in OracleAddresses, sc \in CategoryScores :
          SubmitScore(c, sc, "", ZeroHash256)
    \/ \E id \in SubmissionIds : ChallengeVerification(id, "bob", "reason")
    \/ \E id \in ChallengeIds, accepted \in BOOLEAN : ResolveChallenge(id, accepted)

SpecChallenge == Init /\ [][NextChallenge]_vars

\* C14: resolveChallenge returns false for an unknown challenge id and for a
\* challenge that is already resolved, and a rejected call changes nothing.
\* Checked under SpecChallenge.
C14_ResolvedOnce ==
    [][\A id \in ChallengeIds, accepted \in BOOLEAN :
          (ResolveChallenge(id, accepted)
             /\ (id \notin DOMAIN challenges \/ challenges[id]))
             => result'[2] = FALSE /\ UNCHANGED oracleVars
    ]_vars

(***************************************************************************)
(* Failure leaves no trace.                                                *)
(***************************************************************************)
\* what a method returns to report failure: proposal id 0 from
\* createProposal, the empty id from submitScore and challengeVerification,
\* false from the methods that return bool; distributeMonthlyRewards and
\* claimRewards return a count and an amount and report no failure
ReportsFailure(r) ==
    CASE r[1] = "createProposal" -> r[2] = 0
      [] r[1] \in {"submitScore", "challengeVerification"} -> r[2] = EmptyId
      [] r[1] \in {"none", "distributeMonthlyRewards", "claimRewards"} -> FALSE
      [] OTHER -> r[2] = FALSE

\* C3: a call of a mutating method of the ledger, the registry or the oracle
\* that reports failure (false, proposal id 0 or an empty id) leaves the
\* whole state of the three contracts as it was.  Checked under Spec.
C3_FailureChangesNothing ==
    [][ReportsFailure(result') => UNCHANGED <<tokenVars, daoVars, oracleVars>>]_vars

\* a transferFrom has just been turned down for want of balance, not of
\* allowance: the allowance covers the whole supply and half of it has left
\* the treasury
C3_Witness ==
    /\ result = <<"transferFrom", FALSE>>
    /\ allowance(Token, treasuryAddress, "alice") = UC_TO_UNITS(UC_TOKEN_SUPPLY)
    /\ balanceOf(Token, treasuryAddress) = UC_TO_UNITS(UC_TOKEN_SUPPLY) \div 2
    /\ calls = 3

(***************************************************************************)
(* The registry's own checks on scores and proposals.                      *)
(***************************************************************************)
\* the score vector names a category score above 100
OutOfRange(scores) == \E i \in 1..Len(scores) : scores[i].score > 100

\* C21: submitCompositeScore called on the registry with a category score
\* greater than 100 fails and leaves the contributor's compositeScore,
\* pointsEarned, tier and audit trail unchanged.  Checked under SpecDao.
C21_RegistryChecksRange ==
    \A c \in DOMAIN contributors, sv \in ScoreVectors :
        OutOfRange(sv) =>
            LET r == submitCompositeScore(Dao, c, sv, now)
            IN /\ r.ret = FALSE
               /\ r.d.contributors[c] = contributors[c]

\* C22: in every state reached by registerContributor, submitCompositeScore
\* and applyModuleBonus calls, every contributor's compositeScore lies in
\* 0..100.  Checked under SpecDao.
C22_CompositeScoreInRange ==
    \A c \in DOMAIN contributors :
        getCompositeScore(Dao, c) >= 0 /\ getCompositeScore(Dao, c) <= 100

\* C23: createProposal by an unregistered proposer, or with an empty title or
\* description, returns no valid id (0), stores no proposal and does not
\* advance the proposal id counter.  Checked under Spec.
C23_CreateProposalValidates ==
    [][\A c \in DaoAddresses, title \in Titles :
           CreateProposal(c, title, title) /\ (~isContributor(Dao, c) \/ title = "")
               => /\ result'[2] = 0
                  /\ UNCHANGED <<proposals, nextProposalId>>]_vars

(***************************************************************************)
(* Proposal ids.  Contributors create up to MaxIds proposals at different  *)
(* instants; alice votes on them in between and their execution is tried.  *)
(***************************************************************************)
\* a call of a method of the registry alone
DaoCall(op, r) ==
    /\ SetDao(r.d) /\ Returns(op, r.ret)
    /\ UNCHANGED <<tokenVars, oracleVars, now>>

NextProposals ==
    \/ Tick
    \/ \E c \in DaoAddresses : RegisterContributor(c)
    \/ \E c \in DaoAddresses :
          /\ nextProposalId <= MaxIds
          /\ DaoCall("createProposal",
                     createProposal(Dao, c, "title", "description", now))
    \/ \E p \in 1..MaxIds : CastVote(p, "alice", VoteFOR)
    \/ \E p \in 1..MaxIds : ExecuteProposal(p)

SpecProposals == Init /\ [][NextProposals]_vars

\* C24: the proposals stored are those of the ids 1, 2, 3, ... handed out so
\* far, each under its own id and with votingDeadline 72 hours after its
\* creation; a createProposal by a registered contributor returns the next
\* id, greater than every id in use, stores under it a proposal with status
\* Pending and the three tallies zero that getProposal returns, and leaves
\* every existing proposal and vote as it was.  Checked under SpecProposals.
C24_ProposalIdsIncrease ==
    /\ DOMAIN proposals = 1..(nextProposalId - 1)
    /\ \A id \in DOMAIN proposals :
          /\ getProposal(Dao, id).proposalId = id
          /\ proposals[id].votingDeadline = proposals[id].createdAt + 72 * 3600
    /\ \A c \in DOMAIN contributors :
          LET r == createProposal(Dao, c, "title", "description", now)
              new == getProposal(r.d, r.ret)
          IN /\ r.ret = Cardinality(DOMAIN proposals) + 1
             /\ \A id \in DOMAIN proposals : r.ret > id
             /\ DOMAIN r.d.proposals = DOMAIN proposals \cup {r.ret}
             /\ new.proposalId = r.ret /\ new.proposer = c
             /\ new.status = 0
             /\ new.votesFor = 0 /\ new.votesAgainst = 0 /\ new.votesAbstain = 0
             /\ new.createdAt = now /\ new.votingDeadline = now + 259200
             /\ \A id \in DOMAIN proposals : r.d.proposals[id] = proposals[id]
             /\ r.d.votes = votes

\* the second proposal has just been created, later than the first, which
\* keeps the vote cast on it before
C24_Witness ==
    /\ result = <<"createProposal", 2>>
    /\ nextProposalId = 3
    /\ proposals[2].createdAt > proposals[1].createdAt
    /\ proposals[1].votesFor = 1
    /\ <<1, "alice">> \in DOMAIN votes

(***************************************************************************)
(* Voting power.  One proposal is put to the vote of two contributors      *)
(* whose tiers move through a score and bonuses before and after they vote.*)
(***************************************************************************)
NextPower ==
    \/ \E c \in DaoAddresses : RegisterContributor(c)
    \/ SubmitCompositeScore("alice", AllScores(100))
    \/ \E c \in DaoAddresses : ApplyModuleBonus(c, 1, 250)
    \/ /\ nextProposalId = 1
       /\ DaoCall("createProposal",
                  createProposal(Dao, "alice", "title", "description", now))
    \/ \E c \in DaoAddresses, vt \in VoteTypes : CastVote(1, c, vt)

SpecPower == Init /\ [][NextPower]_vars

\* the tally of the vote type vt in the proposal p
Tally(p, vt) ==
    IF vt = 0 THEN p.votesFor ELSE IF vt = 1 THEN p.votesAgainst ELSE p.votesAbstain

\* C25: a castVote by a contributor who has not voted on the proposal stores
\* the voter's tier multiplier of that moment (Recognized 1, Silver 2, Gold 3,
\* Platinum 4, Founder 5) as the vote's voting power and adds exactly that
\* to the tally of the chosen type, the other two tallies staying as they
\* were; a later submitCompositeScore or applyModuleBonus for the voter
\* (registerWithDao forwards through the former) leaves the votes and the
\* proposals unchanged.  No step ever changes a stored vote, and a step that
\* changes a tier changes no proposal.  The Founder tier is assigned out of
\* band: the formula also casts the vote with the voter's tier set to it.
\* Checked under SpecPower.
C25_VotingPowerAtCastTime ==
    [][/\ \A v \in DOMAIN contributors, vt \in VoteTypes :
          \A tier \in {contributors[v].tier, 4} :
            (1 \in DOMAIN proposals /\ <<1, v>> \notin DOMAIN votes) =>
               LET d0 == [Dao EXCEPT !.contributors[v].tier = tier]
                   r == castVote(d0, 1, v, vt, now)
                   power == <<1, 2, 3, 4, 5>>[tier + 1]
                   vote == r.d.votes[<<1, v>>]
                   later == {applyModuleBonus(r.d, v, 1, 250).d,
                             submitCompositeScore(r.d, v, AllScores(100), now).d}
               IN /\ r.ret = TRUE
                  /\ vote.votingPower = power /\ vote.voteType = vt
                  /\ \A other \in VoteTypes :
                        Tally(r.d.proposals[1], other) =
                            Tally(proposals[1], other) + (IF other = vt THEN power ELSE 0)
                  /\ \A d2 \in later :
                        d2.votes = r.d.votes /\ d2.proposals = r.d.proposals
       /\ \A k \in DOMAIN votes : k \in DOMAIN votes' /\ votes'[k] = votes[k]
       /\ (\E c \in DOMAIN contributors : contributors'[c].tier # contributors[c].tier)
             => proposals' = proposals /\ votes' = votes]_vars

\* alice voted for the proposal as Silver and bob against it as Recognized;
\* alice has since risen to Gold and bob to Platinum, and the tallies are
\* those of the votes
C25_Witness ==
    /\ result = <<"applyModuleBonus", TRUE>>
    /\ <<1, "alice">> \in DOMAIN votes /\ <<1, "bob">> \in DOMAIN votes
    /\ votes[<<1, "alice">>].votingPower = 2 /\ votes[<<1, "alice">>].voteType = VoteFOR
    /\ votes[<<1, "bob">>].votingPower = 1 /\ votes[<<1, "bob">>].voteType = VoteAGAINST
    /\ getVotingPower(Dao, "alice") = 3 /\ getVotingPower(Dao, "bob") = 4
    /\ proposals[1].votesFor = 2 /\ proposals[1].votesAgainst = 1
    /\ proposals[1].votesAbstain = 0

(***************************************************************************)
(* Execution of proposals.  No method of the registry closes a vote: the   *)
(* status Passed is set by the host, so within the contract's own runs     *)
(* every proposal is Pending.  The formula below covers both the reachable *)
(* states and the proposals as the host may have left them, in each of the *)
(* six statuses.                                                           *)
(***************************************************************************)
\* C26: executeProposal(id) succeeds only for an existing proposal whose
\* status is Passed, and then makes it Executed; for an unknown id or any
\* other status (Pending, Active, Failed, Executed, Cancelled) it fails and
\* changes nothing, so a second execution of an executed proposal fails.
\* Checked under SpecVote.
C26_ExecuteOnlyPassed ==
    /\ \A id \in 1..(MaxProposals + 1) :
          LET r == executeProposal(Dao, id, now)
          IN IF id \in DOMAIN proposals /\ proposals[id].status = 2
             THEN r.ret = TRUE /\ r.d.proposals[id].status = 4
             ELSE r.ret = FALSE /\ r.d = Dao
    /\ \A id \in DOMAIN proposals, st \in 0..5 :
          LET d0 == [Dao EXCEPT !.proposals[id].status = st]
              r == executeProposal(d0, id, now)
              again == executeProposal(r.d, id, now)
          IN /\ IF st = 2
                THEN /\ r.ret = TRUE
                     /\ r.d.proposals[id].status = 4
                     /\ \A other \in DOMAIN proposals \ {id} :
                           r.d.proposals[other] = proposals[other]
                     /\ r.d.votes = votes
                ELSE r.ret = FALSE /\ r.d = d0
             /\ again.ret = FALSE /\ again.d = r.d

\* the execution of the proposal, which has votes for it and is still
\* Pending, has just been turned down
C26_Witness ==
    /\ result = <<"executeProposal", FALSE>>
    /\ 1 \in DOMAIN proposals
    /\ proposals[1].status = PENDING
    /\ proposals[1].votesFor > 0 /\ proposals[1].votesAgainst = 0
    /\ proposals[1].executionTime = 0

(***************************************************************************)
(* The verifier set.  Verifiers are registered and removed while a         *)
(* submission collects verdicts.                                           *)
(***************************************************************************)
NextVerifiers ==
    \/ \E v \in VerifierAddresses : RegisterVerifier(v)
    \/ \E v \in VerifierAddresses : RemoveVerifier(v)
    \/ SubmitScore("alice", <<60, 60, 60, 60, 60>>, "", ZeroHash256)
    \/ \E id \in SubmissionIds, v \in VerifierAddresses, approved \in BOOLEAN :
          VerifySubmission(id, v, approved, "notes")

SpecVerifiers == Init /\ [][NextVerifiers]_vars

\* C27: verifySubmission for an unknown submission id, or by a caller who is
\* not in the verifier set at the time of the call (never registered, or
\* registered and removed since), returns false and leaves the verifier
\* count and level of every submission, the verification chains and the
\* oracle's total and accepted verification counters, and the rest of the
\* oracle, unchanged.  Checked under SpecVerifiers.
C27_VerifyFailureChangesNothing ==
    \A id \in SubmissionIds, v \in VerifierAddresses \cup {"v3"}, approved \in BOOLEAN :
        (id \notin DOMAIN submissions \/ v \notin verifiers) =>
            LET r == verifySubmission(Oracle, id, v, approved, "notes", now)
            IN /\ r.ret = FALSE
               /\ r.o.submissions = submissions
               /\ r.o.verificationChains = verificationChains
               /\ r.o.totalVerifications = totalVerifications
               /\ r.o.acceptedVerifications = acceptedVerifications
               /\ r.o = Oracle

\* v1 has verified the submission and has been removed since; a
\* verifySubmission has just been turned down, and the submission keeps its
\* one verdict
C27_Witness ==
    /\ result = <<"verifySubmission", FALSE>>
    /\ verifiers = {"v2"}
    /\ \E id \in DOMAIN submissions :
          /\ submissions[id].verifierCount = 1
          /\ Len(ChainOf(Oracle, id)) = 1
          /\ ChainOf(Oracle, id)[1].verifier = "v1"
    /\ totalVerifications = 1 /\ acceptedVerifications = 1

(***************************************************************************)
(* The verifier count.  verifierCount is a uint8: one verifier approves    *)
(* one submission up to MaxVerdicts times.                                 *)
(***************************************************************************)
NextCount ==
    \/ RegisterVerifier("v1")
    \/ SubmitScore("alice", <<60, 60, 60, 60, 60>>, "", ZeroHash256)
    \/ \E id \in SubmissionIds :
          /\ totalVerifications < MaxVerdicts
          /\ LET r == verifySubmission(Oracle, id, "v1", TRUE, "notes", now)
             IN SetOracle(r.o) /\ Returns("verifySubmission", r.ret)
          /\ UNCHANGED <<tokenVars, daoVars, now>>

SpecCount == Init /\ [][NextCount]_vars

\* C28: a verifySubmission of a known submission by a registered verifier
\* succeeds, raises the submission's verifier count by exactly 1, appends
\* exactly one record, that of the verdict, to its chain, and sets the level
\* from the new count n and the verdict: AuditComplete if n >= 3 and
\* approved, Advanced if 1 <= n < 3 and approved, Basic if rejected; three
\* approvals by three distinct registered verifiers of a submission without
\* verdicts end in AuditComplete.  Checked under SpecCount.
C28_VerifyCountsAndLevels ==
    \A id \in DOMAIN submissions :
        /\ \A v \in verifiers, approved \in BOOLEAN :
              LET r == verifySubmission(Oracle, id, v, approved, "notes", now)
                  n == submissions[id].verifierCount + 1
                  chain == ChainOf(r.o, id)
              IN /\ r.ret = TRUE
                 /\ r.o.submissions[id].verifierCount = n
                 /\ Len(chain) = Len(ChainOf(Oracle, id)) + 1
                 /\ SubSeq(chain, 1, Len(chain) - 1) = ChainOf(Oracle, id)
                 /\ chain[Len(chain)].verifier = v
                 /\ chain[Len(chain)].approved = approved
                 /\ r.o.submissions[id].verificationLevel =
                        (IF ~approved THEN 1 ELSE IF n >= 3 THEN 3 ELSE 2)
        /\ \A v1 \in verifiers, v2 \in verifiers, v3 \in verifiers :
              (/\ Cardinality({v1, v2, v3}) = 3
               /\ submissions[id].verifierCount = 0
               /\ ChainOf(Oracle, id) = <<>>)
              => LET r1 == verifySubmission(Oracle, id, v1, TRUE, "notes", now)
                     r2 == verifySubmission(r1.o, id, v2, TRUE, "notes", now)
                     r3 == verifySubmission(r2.o, id, v3, TRUE, "notes", now)
                 IN getVerificationStatus(r3.o, id) = 3

(***************************************************************************)
(* What one reward cycle pays.                                             *)
(***************************************************************************)
\* a cycle over contributors in the tiers Recognized, Gold and Platinum, with
\* the treasury whole, drawn down to 10 UC, or empty
NextPayout ==
    \/ \E c \in RewardAddresses : CyclesLeft /\ RegisterContributor(c)
    \/ \E c \in {"bob", "carol"} : CyclesLeft /\ ApplyModuleBonus(c, 1, 250)
    \/ \E amount \in {UC_TO_UNITS(UC_TOKEN_SUPPLY - 10), UC_TO_UNITS(UC_TOKEN_SUPPLY)} :
          CyclesLeft /\ TreasuryWithdraw("alice", amount)
    \/ DistributeMonthlyRewards(now)

SpecPayout == Init /\ [][NextPayout]_vars

\* the share of the contributor c in a cycle: its tier's percentage of the
\* pool of 30 UC, split evenly over the contributors of the tier
ShareOf(c) ==
    LET percent == <<20, 20, 30, 40, 100>>[contributors[c].tier + 1]
        size == Cardinality({x \in DOMAIN contributors :
                                contributors[x].tier = contributors[c].tier})
    IN ((30 * UC_UNIT * percent) \div 100) \div size

C30_BonusExact ==
    \A c \in DaoAddresses, b \in BonusPoints :
        LET r == applyModuleBonus(Dao, c, 1, b)
        IN IF c \in DOMAIN contributors
           THEN LET old == contributors[c]
                    new == r.d.contributors[c]
                IN /\ r.ret = TRUE
                   /\ new.compositeScore = old.compositeScore + b
                   /\ new.pointsEarned = old.pointsEarned + b
                   /\ new.tier = (IF new.pointsEarned >= 500 THEN 3
                                  ELSE IF new.pointsEarned >= 250 THEN 2
                                  ELSE IF new.pointsEarned >= 100 THEN 1
                                  ELSE 0)
                   /\ \A other \in DOMAIN contributors \ {c} :
                         r.d.contributors[other] = contributors[other]
                   /\ DOMAIN r.d.contributors = DOMAIN contributors
           ELSE r.ret = FALSE /\ r.d = Dao

(***************************************************************************)
(* The treasury counter.                                                   *)
(***************************************************************************)
\* C31: in every reachable ledger state getTreasuryBalance(), the
\* treasuryBalance counter, equals the balance of the treasury account, and
\* the circulating supply of getContractState, totalSupply - treasuryBalance,
\* equals the sum of the balances of the other accounts.  Checked under
\* SpecToken.
C31_TreasuryCounterIsBalance ==
    /\ treasuryBalance = balanceOf(Token, treasuryAddress)
    /\ USub(totalSupply, treasuryBalance) =
           SumBalances(accounts, DOMAIN accounts \ {treasuryAddress})

(***************************************************************************)
(* Proposals stay Pending.                                                 *)
(***************************************************************************)
\* the statuses of the proposals of the registry d
Statuses(d) == {d.proposals[id].status : id \in DOMAIN d.proposals}

\* the statuses that the proposals have after one call of a public mutating
\* method of the registry, made on the registry d at the time t
AfterOneCall(d, t) ==
    UNION ({Statuses(registerContributor(d, c, t).d) : c \in DaoAddresses}
      \cup {Statuses(createProposal(d, c, "title", "description", t).d) :
                c \in DaoAddresses}
      \cup {Statuses(castVote(d, p, c, vt, t).d) :
                p \in 1..MaxIds, c \in DaoAddresses, vt \in VoteTypes}
      \cup {Statuses(executeProposal(d, p, t).d) : p \in 1..MaxIds}
      \cup {Statuses(submitCompositeScore(d, c, AllScores(100), t).d) :
                c \in DaoAddresses}
      \cup {Statuses(applyModuleBonus(d, c, 1, 250).d) : c \in DaoAddresses}
      \cup {Statuses(distributeMonthlyRewards(d, Token, t, t).d)}
      \cup {Statuses(claimRewards(d, c, t).d) : c \in DaoAddresses})

\* C32: in every reachable state every proposal is Pending, an
\* executeProposal that has returned has returned false, and one more call
\* of any public method of the registry, made 72 hours later, past the
\* voting deadline of every proposal, leaves every proposal Pending; in
\* particular executeProposal fails for every id, whatever the tallies.
\* Checked under SpecProposals.
C32_AlwaysPending ==
    /\ \A id \in DOMAIN proposals : proposals[id].status = 0
    /\ result[1] = "executeProposal" => result[2] = FALSE
    /\ LET t == now + 72 * 3600 + 1
       IN /\ \A id \in 1..MaxIds : executeProposal(Dao, id, t).ret = FALSE
          /\ AfterOneCall(Dao, t) \subseteq {0}

\* the execution of the first proposal has just been turned down: it was
\* created an instant ago, has alice's vote for it and none against it, and
\* is Pending, as is the second proposal
C32_Witness ==
    /\ result = <<"executeProposal", FALSE>>
    /\ DOMAIN proposals = {1, 2}
    /\ proposals[1].createdAt < now
    /\ proposals[1].votesFor = 1 /\ proposals[1].votesAgainst = 0
    /\ proposals[1].status = PENDING /\ proposals[2].status = PENDING
    /\ <<2, "alice">> \notin DOMAIN votes

(***************************************************************************)
(* Tallies and votes.                                                      *)
(***************************************************************************)
\* the sum of the voting power recorded with the votes of the keys in K that
\* are votes of the type vt on the proposal id
RECURSIVE PowerOfVotes(_, _, _)
PowerOfVotes(K, id, vt) ==
    IF K = {} THEN 0
    ELSE LET k == CHOOSE x \in K : TRUE
             rest == PowerOfVotes(K \ {k}, id, vt)
         IN IF k[1] = id /\ votes[k].voteType = vt
            THEN votes[k].votingPower + rest ELSE rest

\* C33: for every proposal, votesFor, votesAgainst and votesAbstain each
\* equal the sum of the votingPower recorded with the stored votes of that
\* type on the proposal, and every stored vote is a vote on an existing
\* proposal by a registered contributor.  Checked under SpecPower.
C33_TalliesAreWeightedSums ==
    /\ \A id \in DOMAIN proposals :
          /\ proposals[id].votesFor = PowerOfVotes(DOMAIN votes, id, 0)
          /\ proposals[id].votesAgainst = PowerOfVotes(DOMAIN votes, id, 1)
          /\ proposals[id].votesAbstain = PowerOfVotes(DOMAIN votes, id, 2)
    /\ \A k \in DOMAIN votes :
          /\ k[1] \in DOMAIN proposals /\ votes[k].proposalId = k[1]
          /\ k[2] \in DOMAIN contributors /\ votes[k].voter = k[2]

\* two votes for the proposal, alice's as Gold and bob's as Recognized, make
\* a tally of 4, not of 2
C33_Witness ==
    /\ result = <<"castVote", TRUE>>
    /\ DOMAIN votes = {<<1, "alice">>, <<1, "bob">>}
    /\ votes[<<1, "alice">>].voteType = VoteFOR /\ votes[<<1, "alice">>].votingPower = 3
    /\ votes[<<1, "bob">>].voteType = VoteFOR /\ votes[<<1, "bob">>].votingPower = 1
    /\ proposals[1].votesFor = 4
    /\ proposals[1].votesAgainst = 0 /\ proposals[1].votesAbstain = 0

(***************************************************************************)
(* The lifetime total of rewards.                                          *)
(***************************************************************************)
\* what the step credits to the ledger accounts of the contributors in S
RECURSIVE PaidTo(_)
PaidTo(S) ==
    IF S = {} THEN 0
    ELSE LET c == CHOOSE x \in S : TRUE
             gain == IF c \in DOMAIN accounts'
                     THEN USub(accounts'[c].balance, balanceOf(Token, c)) ELSE 0
         IN gain + PaidTo(S \ {c})

\* C34: getTotalRewardsDistributed() is the sum of the amounts paid out to
\* contributors by distributeMonthlyRewards: every cycle raises it by what
\* the cycle has credited to the contributors' ledger accounts, and a cycle
\* that pays nobody leaves it unchanged; no other step changes it.  Checked
\* under SpecPayout.
C34_TotalIsWhatWasPaid ==
    [][IF DistributeMonthlyRewards(now)
       THEN totalRewardsDistributed' =
                totalRewardsDistributed + PaidTo(DOMAIN contributors)
       ELSE totalRewardsDistributed' = totalRewardsDistributed]_vars

(***************************************************************************)
(* Rewards received and rewards credited.                                  *)
(***************************************************************************)
\* C35: a contributor's rewardsReceived is what reward payments have
\* credited to its ledger account: no step of the registry raises
\* rewardsReceived by other than what the same step credits to the
\* contributor's ledger balance, claimRewards included.  Checked under
\* SpecRegistry, where contributors register, score and claim.
C35_ReceivedIsCredited ==
    [][\A c \in DOMAIN contributors :
          contributors'[c].rewardsReceived - contributors[c].rewardsReceived
              = USub(IF c \in DOMAIN accounts' THEN accounts'[c].balance ELSE 0,
                     balanceOf(Token, c))
    ]_vars

(***************************************************************************)
(* Counters and chains of the oracle.                                      *)
(***************************************************************************)
\* the number of records, or of approving records, in the chains of the ids
\* in S
RECURSIVE Records(_, _)
Records(S, approvingOnly) ==
    IF S = {} THEN 0
    ELSE LET id == CHOOSE x \in S : TRUE
             chain == verificationChains[id]
             n == Cardinality({i \in 1..Len(chain) :
                                  ~approvingOnly \/ chain[i].approved})
         IN n + Records(S \ {id}, approvingOnly)

\* C36: for every submission id the submission's verifierCount is the number
\* of records in the id's verification chain; totalVerifications is the
\* number of records in all chains and acceptedVerifications the number of
\* approving ones, so that the acceptance rate, accepted * 100 / total and 0
\* without records, lies in 0..100.  Checked under SpecVerifiers.
C36_CountsMatchChains ==
    /\ \A id \in DOMAIN submissions :
          submissions[id].verifierCount = Len(ChainOf(Oracle, id))
    /\ totalVerifications = Records(DOMAIN verificationChains, FALSE)
    /\ acceptedVerifications = Records(DOMAIN verificationChains, TRUE)
    /\ LET rate == IF totalVerifications = 0 THEN 0
                   ELSE (acceptedVerifications * 100) \div totalVerifications
       IN rate >= 0 /\ rate <= 100

(***************************************************************************)
(* C37: isRegisteredWithDao(id) is true only if a registerWithDao(id) has  *)
(* succeeded before.  In SpecGate only registerWithDao reaches             *)
(* submitCompositeScore, so a forwarded submission has left an entry in    *)
(* the audit trail of its target contributor; a submission whose target    *)
(* has an empty trail (never forwarded, or forwarding failed because the   *)
(* target is not registered) must not be reported as registered.           *)
(***************************************************************************)
C37_RegisteredMeansForwarded ==
    \A id \in DOMAIN submissions :
        isRegisteredWithDao(Oracle, id) =>
            TrailOf(submissions[id].targetContributor) # <<>>

(***************************************************************************)
(* C38: a successful challengeVerification returns an id that no challenge *)
(* has yet and leaves that challenge pending, an unknown submission gets   *)
(* the empty id; a resolved challenge stays resolved through every         *)
(* operation, a further challengeVerification on the same submission at    *)
(* the same timestamp included; resolveChallenge changes no submission.    *)
(* Checked under SpecChallenge.                                            *)
(***************************************************************************)
C38_ChallengeIdsFreshAndResolvedForGood ==
    [][/\ \A ch \in DOMAIN challenges :
             challenges[ch] => (ch \in DOMAIN challenges' /\ challenges'[ch])
       /\ \A id \in SubmissionIds :
             ChallengeVerification(id, "bob", "reason") =>
                 IF id \in DOMAIN submissions
                 THEN /\ result'[2] # EmptyId
                      /\ result'[2] \notin DOMAIN challenges
                      /\ result'[2] \in DOMAIN challenges'
                      /\ ~challenges'[result'[2]]
                 ELSE result'[2] = EmptyId
       /\ \A ch \in ChallengeIds, accepted \in BOOLEAN :
             ResolveChallenge(ch, accepted) => submissions' = submissions
    ]_vars

(***************************************************************************)
(* castVote entered by several callers at once.  The contract holds no     *)
(* lock, so the statements of two calls interleave; the update += of a     *)
(* tally is a read followed by a write.  Each caller calls once.           *)
(***************************************************************************)
\* UCICDaoContract.cpp:238-250: the three checks
CastVoteEnter(t, proposalId, voter, voteType) ==
    /\ inFlight[t].pc = "idle"
    /\ IF \/ proposalId \notin DOMAIN proposals
          \/ ~isContributor(Dao, voter)
          \/ <<proposalId, voter>> \in DOMAIN votes
       THEN /\ inFlight' = [inFlight EXCEPT ![t].pc = "done", ![t].ret = FALSE]
            /\ result' = <<"castVote", FALSE>>
       ELSE /\ inFlight' = [inFlight EXCEPT ![t].pc = "checked",
                                            ![t].proposalId = proposalId,
                                            ![t].voter = voter,
                                            ![t].voteType = voteType]
            /\ result' = result
    /\ UNCHANGED <<tokenVars, daoVars, oracleVars, now, calls, user_totp_info>>

\* UCICDaoContract.cpp:252-261: the vote is built and stored
CastVoteStore(t) ==
    /\ inFlight[t].pc = "checked"
    /\ LET f == inFlight[t]
           votingPower == getVotingPower(Dao, f.voter)
           vote == [proposalId |-> f.proposalId, voter |-> f.voter,
                    voteType |-> f.voteType, votingPower |-> votingPower,
                    votedAt |-> now]
       IN /\ votes' = Put(votes, <<f.proposalId, f.voter>>, vote)
          /\ inFlight' = [inFlight EXCEPT ![t].pc = "stored",
                                          ![t].votingPower = votingPower]
    /\ UNCHANGED <<tokenVars, contributors, proposals, governanceLog,
                   nextProposalId, totalRewardsDistributed,
                   lastRewardDistribution, oracleVars, now, result, calls,
                   user_totp_info>>

\* UCICDaoContract.cpp:263-270: the tally of the vote's type is read
CastVoteLoad(t) ==
    /\ inFlight[t].pc = "stored"
    /\ inFlight' = [inFlight EXCEPT
                      ![t].pc = "loaded",
                      ![t].tally = Tally(proposals[inFlight[t].proposalId],
                                         inFlight[t].voteType)]
    /\ UNCHANGED <<tokenVars, daoVars, oracleVars, now, result, calls,
                   user_totp_info>>

\* UCICDaoContract.cpp:263-272: the sum is written back and the call returns
CastVoteAdd(t) ==
    /\ inFlight[t].pc = "loaded"
    /\ LET f == inFlight[t]
           sum == UAdd(f.tally, f.votingPower)
       IN proposals' =
             [proposals EXCEPT ![f.proposalId] =
                 IF f.voteType = VoteFOR THEN [@ EXCEPT !.votesFor = sum]
                 ELSE IF f.voteType = VoteAGAINST
                 THEN [@ EXCEPT !.votesAgainst = sum]
                 ELSE [@ EXCEPT !.votesAbstain = sum]]
    /\ inFlight' = [inFlight EXCEPT ![t].pc = "done", ![t].ret = TRUE]
    /\ result' = <<"castVote", TRUE>>
    /\ UNCHANGED <<tokenVars, contributors, votes, governanceLog,
                   nextProposalId, totalRewardsDistributed,
                   lastRewardDistribution, oracleVars, now, calls,
                   user_totp_info>>

\* one proposal, its proposer, and two callers voting in her name
NextRace ==
    \/ RegisterContributor("alice")
    \/ /\ nextProposalId = 1
       /\ DaoCall("createProposal",
                  createProposal(Dao, "alice", "title", "description", now))
    \/ \E t \in Callers, vt \in VoteTypes : CastVoteEnter(t, 1, "alice", vt)
    \/ \E t \in Callers : CastVoteStore(t)
    \/ \E t \in Callers : CastVoteLoad(t)
    \/ \E t \in Callers : CastVoteAdd(t)

SpecRace == Init /\ [][NextRace]_vars

\* C39: two castVote calls for the same (proposal, voter) made by concurrent
\* callers do not both succeed: under every interleaving of their steps, once
\* both have returned, at most one returned true, one vote is stored for the
\* pair and each tally of the proposal is the sum of the powers of the votes
\* stored for that type, as after the two calls made one after the other.
\* Checked under SpecRace.
C39_ConcurrentVotesSerialize ==
    (\A t \in Callers : inFlight[t].pc = "done") =>
        /\ ~(inFlight[1].ret /\ inFlight[2].ret)
        /\ \A id \in DOMAIN proposals, vt \in VoteTypes :
              Tally(proposals[id], vt) = PowerOfVotes(DOMAIN votes, id, vt)

(***************************************************************************)
(* TwoFactorAuth (Orthanc auth-bridge).  user_totp_info_ maps a user to    *)
(* its TOTPInfo; the object starts empty (LoadUserTOTPInfo is a            *)
(* placeholder).  A secret is a small number, and a code is written        *)
(* <<z, n>>: the decimal digits of n behind z zeros.                       *)
(***************************************************************************)
TOTP_WINDOW_SIZE == 1
TOTP_PERIOD == 30
MAX_FAILED_ATTEMPTS == 3
LOCKOUT_DURATION_MINUTES == 15

Users == {"u1", "u2"}
Secrets == {1, 2}

\* the truncated HMAC-SHA1 of the timestamp under the secret, six digits: a
\* fixed function of both that tells secrets and windows apart
GenerateTOTPCode(secret, timestamp) ==
    (secret * 7919 + (timestamp + TOTP_WINDOW_SIZE) * 104729) % 1000000

GetCurrentTimestamp(time) == time \div TOTP_PERIOD

IsUserLockedOut(a, user_id, time) ==
    IF user_id \notin DOMAIN a THEN FALSE
    ELSE IF a[user_id].failed_attempts < MAX_FAILED_ATTEMPTS THEN FALSE
    ELSE (time - a[user_id].last_failed_attempt) \div 60 < LOCKOUT_DURATION_MINUTES

ResetFailedAttempts(a, user_id) ==
    IF user_id \in DOMAIN a THEN [a EXCEPT ![user_id].failed_attempts = 0] ELSE a

SetupTOTP(a, user_id, secret) ==
    [a |-> Put(a, user_id, [user_id |-> user_id, secret_key |-> secret,
                            is_enabled |-> FALSE, failed_attempts |-> 0,
                            last_failed_attempt |-> 0]),
     ret |-> secret]

ValidateTOTP(a, user_id, code, time) ==
    IF user_id \notin DOMAIN a \/ ~a[user_id].is_enabled THEN [a |-> a, ret |-> FALSE]
    ELSE IF IsUserLockedOut(a, user_id, time) THEN [a |-> a, ret |-> FALSE]
    ELSE IF \E window \in (0 - TOTP_WINDOW_SIZE)..TOTP_WINDOW_SIZE :
               LET expected_code ==
                       GenerateTOTPCode(a[user_id].secret_key,
                                        GetCurrentTimestamp(time) + window)
               IN \/ <<0, expected_code>> = code
                  \/ expected_code < 100000 /\ <<1, expected_code>> = code
         THEN [a |-> ResetFailedAttempts(a, user_id), ret |-> TRUE]
    ELSE [a |-> [a EXCEPT ![user_id].failed_attempts = @ + 1,
                          ![user_id].last_failed_attempt = time],
          ret |-> FALSE]

EnableTOTP(a, user_id, verification_code, time) ==
    IF user_id \notin DOMAIN a THEN [a |-> a, ret |-> FALSE]
    ELSE LET v == ValidateTOTP(a, user_id, verification_code, time)
         IN IF ~v.ret THEN [a |-> v.a, ret |-> FALSE]
            ELSE [a |-> ResetFailedAttempts([v.a EXCEPT ![user_id].is_enabled = TRUE],
                                            user_id),
                  ret |-> TRUE]

IsTOTPEnabled(a, user_id) == user_id \in DOMAIN a /\ a[user_id].is_enabled

\* a call of a method of TwoFactorAuth
AuthCall(op, r) ==
    /\ user_totp_info' = r.a
    /\ result' = <<op, r.ret>>
    /\ calls' = IF calls < MaxCalls THEN calls + 1 ELSE calls
    /\ UNCHANGED <<tokenVars, daoVars, oracleVars, now, inFlight>>

\* the codes a user types: the code of a secret in the current window, with
\* or without a zero in front, and a code of no secret
Codes == {<<z, GenerateTOTPCode(s, GetCurrentTimestamp(now))>> :
              z \in {0, 1}, s \in Secrets} \cup {<<0, 0>>}

NextAuth ==
    \/ Tick
    \/ \E u \in Users, secret \in Secrets :
          AuthCall("SetupTOTP", SetupTOTP(user_totp_info, u, secret))
    \/ \E u \in Users, code \in Codes :
          AuthCall("EnableTOTP", EnableTOTP(user_totp_info, u, code, now))
    \/ \E u \in Users, code \in Codes :
          /\ \A x \in DOMAIN user_totp_info :
                user_totp_info[x].failed_attempts <= MAX_FAILED_ATTEMPTS
          /\ AuthCall("ValidateTOTP", ValidateTOTP(user_totp_info, u, code, now))
    \/ \E u \in Users :
          AuthCall("UnlockUser",
                   [a |-> ResetFailedAttempts(user_totp_info, u), ret |-> TRUE])

SpecAuth == Init /\ [][NextAuth]_vars

\* C40: after SetupTOTP(user), EnableTOTP(user, code) with the code of the
\* user's secret in the current time window, the user not being locked out,
\* returns true and leaves IsTOTPEnabled(user) true.  Checked under SpecAuth.
C40_EnableWithValidCode ==
    [][\A u \in Users, code \in Codes :
          (/\ AuthCall("EnableTOTP", EnableTOTP(user_totp_info, u, code, now))
           /\ u \in DOMAIN user_totp_info
           /\ ~IsUserLockedOut(user_totp_info, u, now)
           /\ code = <<0, GenerateTOTPCode(user_totp_info[u].secret_key,
                                           GetCurrentTimestamp(now))>>)
             => /\ result' = <<"EnableTOTP", TRUE>>
                /\ IsTOTPEnabled(user_totp_info', u)
    ]_vars

====
